---- MODULE Spec2Model ----
(***************************************************************************)
(* Formation gateway: the VICE readiness engine of routes/apps.py.         *)
(*                                                                         *)
(*   check_vice_url_ready    the URL readiness prober and its cache        *)
(*   get_analysis_subdomain  the subdomain resolver                        *)
(*                                                                         *)
(* Every coroutine is cut at its await points: one action is the code that *)
(* runs between two awaits, which the event loop executes atomically.      *)
(* Time is counted in half seconds, the smallest delay the code asks for   *)
(* (asyncio.sleep(0.5 * 2**attempt)).                                      *)
(***************************************************************************)
EXTENDS Integers, Sequences, FiniteSets, TLC

\* ------------------------------------------------------------------ bounds
\* runs of one probe (SpecProbe)
MaxTime == 5          \* the clock reads 0..MaxTime
MaxProbeRetries == 3  \* configured retry counts are drawn from -1..MaxProbeRetries
\* runs of successive probes over the cache (SpecCache)
MaxCacheTime == 2     \* the clock reads 0..MaxCacheTime
MaxCacheRetries == 2  \* configured retry counts are drawn from -1..MaxCacheRetries
MaxTTL == 2           \* configured cache TTLs are drawn from 0..MaxTTL
MaxCalls == 2         \* calls of check_vice_url_ready started in one run
\* runs of the resolver (SpecResolve)
MaxResolveTime == 8   \* the clock reads 0..MaxResolveTime
MaxAsyncRetries == 5  \* max_retries is drawn from 1..MaxAsyncRetries
\* runs of one request through a route handler (SpecRequests)
MaxRequestTime == 1     \* the clock runs freely over 0..MaxRequestTime
MaxRequestRetries == 2  \* configured retry counts are drawn from 0..MaxRequestRetries
\* runs of one status request to its end (SpecStatusFair)
MaxStatusTime == 0      \* the clock runs freely over 0..MaxStatusTime
MaxRepeatTime == 2      \* the clock limit while requests follow one another
MaxOverlapTime == 2     \* the clock limit while two calls overlap
MaxOverlapRetries == 2  \* largest retry count while two calls overlap

\* --------------------------------------------------------------- constants
\* config.vice_url_check_timeout, in seconds (only echoed into details)
vice_url_check_timeout == 5
\* the default of config.vice_url_check_retries
DefaultProbeRetries == 3

\* get_analysis_subdomain's defaults: max_retries, and retry_delay = 1.0 s
\* in half seconds
DefaultMaxRetries == 5
DefaultRetryDelay == 2

Tasks == {1, 2}
URLs == {"https://abc123.cyverse.run", "https://def456.cyverse.run"}

\* Status codes a probed endpoint answers with.
StatusCodes == {200, 302, 400, 404, 405}

\* Exceptions an httpx request raises: httpx.ConnectError, a subclass of
\* httpx.TimeoutException, and any other exception.
Errors == {"ConnectError", "ReadTimeout", "ReadError"}

IsConnectErrorNever(e) == FALSE

IsConnectErrorAnyException(e) == TRUE

IsConnectError(e) == e = "ConnectError"

IsTimeoutException(e) == e = "ReadTimeout"

VARIABLES
  now,                        \* time.time(), in half seconds
  vice_url_check_retries,     \* config.vice_url_check_retries
  vice_url_check_cache_ttl,   \* config.vice_url_check_cache_ttl, in half seconds
  vice_url_cache,             \* _vice_url_cache: url -> (timestamp, ready, details)
  pc,                         \* where each task's coroutine is suspended
  chk,                        \* the locals of each task's check_vice_url_ready
  result,                     \* what each task's check_vice_url_ready returned
  calls,                      \* calls of check_vice_url_ready started so far
  trace,                      \* per call: what the call did (requests, sleeps, failures)
  returned,                   \* per url: the last probe of it that returned
  app_exposer_client,         \* whether the module's app_exposer_client is set
  res,                        \* the locals of each task's get_analysis_subdomain
  subdomain,                  \* what each task's get_analysis_subdomain returned
  rtrace,                     \* per call: the backend calls and sleeps it made
  apps_client,                \* whether the module's apps_client is set
  req,                        \* the locals of each task's route handler
  http,                       \* what each task's route handler gave its caller
  log                         \* per request: the outgoing calls, in the order made

vars == <<now, vice_url_check_retries, vice_url_check_cache_ttl, vice_url_cache,
          pc, chk, result, calls, trace, returned,
          app_exposer_client, res, subdomain, rtrace,
          apps_client, req, http, log>>

\* ------------------------------------------------------------ pure helpers
RECURSIVE Pow2(_)
Pow2(n) == IF n <= 0 THEN 1 ELSE 2 * Pow2(n - 1)

CacheFreshOffByOne(current_time, cached_time) ==
  current_time - cached_time < vice_url_check_cache_ttl - 1

CacheFreshInclusive(current_time, cached_time) ==
  current_time - cached_time <= vice_url_check_cache_ttl

\* apps.py:53  current_time - cached_time < config.vice_url_check_cache_ttl
CacheFresh(current_time, cached_time) ==
  current_time - cached_time < vice_url_check_cache_ttl

HeadNeedsGet405(status_code) == status_code = 405

\* apps.py:72  response.status_code in (404, 405)
HeadNeedsGet(status_code) == status_code \in {404, 405}

IsReady2xx(status_code) == 200 <= status_code /\ status_code < 300

\* apps.py:84  ready = 200 <= response.status_code < 400
IsReady(status_code) == 200 <= status_code /\ status_code < 400

BackoffFixed(attempt) == 1

\* apps.py:100, 112  the backoff 0.5 * (2**attempt) seconds, in half seconds
Backoff(attempt) == Pow2(attempt)

MoreAttemptsInclusive(attempt) == attempt < vice_url_check_retries

\* apps.py:98, 111  attempt < retries - 1
MoreAttempts(attempt) == attempt < vice_url_check_retries - 1

\* apps.py:81  response_time_ms = int((time.time() - start_time) * 1000)
ResponseTimeMs(start_time) == (now - start_time) * 500

\* apps.py:86-90
ResponseDetails(status_code, start_time, attempt) ==
  [status_code |-> status_code,
   response_time_ms |-> ResponseTimeMs(start_time),
   attempt |-> attempt + 1]

TimeoutDetailsFromZero(attempt) ==
  [error |-> "timeout",
   timeout_seconds |-> vice_url_check_timeout,
   attempt |-> attempt]

\* apps.py:102-106
TimeoutDetails(attempt) ==
  [error |-> "timeout",
   timeout_seconds |-> vice_url_check_timeout,
   attempt |-> attempt + 1]

\* str(e) of an exception
Message(e) == "message of " \o e

\* apps.py:114-118
ErrorDetails(e, attempt) ==
  [error |-> Message(e), error_type |-> e, attempt |-> attempt + 1]

\* apps.py:123
ExceededDetails ==
  [error |-> "max_retries_exceeded", retries |-> vice_url_check_retries]

CacheStoreIfAbsent(cache, url, current_time, ready, details) ==
  IF url \in DOMAIN cache
    THEN cache
    ELSE [u \in DOMAIN cache \cup {url} |->
            IF u = url
              THEN [time |-> current_time, ready |-> ready, details |-> details]
              ELSE cache[u]]

CacheStoreAlone(cache, url, current_time, ready, details) ==
  [u \in {url} |-> [time |-> current_time, ready |-> ready, details |-> details]]

CacheStoreKeepNewest(cache, url, current_time, ready, details) ==
  IF url \in DOMAIN cache /\ cache[url].time > current_time
    THEN cache
    ELSE [u \in DOMAIN cache \cup {url} |->
            IF u = url
              THEN [time |-> current_time, ready |-> ready, details |-> details]
              ELSE cache[u]]

CacheStoreUnlessExceeded(cache, url, current_time, ready, details) ==
  IF "retries" \in DOMAIN details
    THEN cache
    ELSE [u \in DOMAIN cache \cup {url} |->
            IF u = url
              THEN [time |-> current_time, ready |-> ready, details |-> details]
              ELSE cache[u]]

\* apps.py:93, 107, 119, 124  _vice_url_cache[url] = (current_time, ready, details)
CacheStore(cache, url, current_time, ready, details) ==
  [u \in DOMAIN cache \cup {url} |->
     IF u = url
       THEN [time |-> current_time, ready |-> ready, details |-> details]
       ELSE cache[u]]

\* ------------------------------------------------------- outcomes, history
Resp(s) == [kind |-> "response", status |-> s, error |-> "-"]
Raised(e) == [kind |-> "error", status |-> 0, error |-> e]
Pending == [kind |-> "pending", status |-> 0, error |-> "-"]
NotSent == [kind |-> "not sent", status |-> 0, error |-> "-"]

NoChk == [url |-> "-", current_time |-> 0, attempt |-> 0, start_time |-> 0, wake |-> 0]
NoResult == [ready |-> FALSE, details |-> [pending |-> TRUE]]
NoTrace ==
  [hit |-> FALSE,          \* the call was answered from the cache
   had_entry |-> FALSE,    \* the cache held an entry for the url at entry
   seen |-> [time |-> 0, ready |-> FALSE, details |-> [pending |-> TRUE]],
   has_prev |-> FALSE,     \* a probe of the url had returned before entry
   prev |-> [time |-> 0, ready |-> FALSE, details |-> [pending |-> TRUE]],
   heads |-> 0,            \* HEAD requests sent
   gets |-> 0,             \* GET requests sent
   sleeps |-> <<>>,        \* the delays slept, in order
   fails |-> <<>>,         \* the exception that ended each failed attempt
   head |-> NotSent,       \* the HEAD of the attempt under way
   get |-> NotSent,        \* its GET after a HEAD answer of 404 or 405
   fallback |-> NotSent,   \* its GET after a HEAD or GET that raised
   only_timeouts |-> TRUE, \* no request ended otherwise than by timing out
   wrote |-> FALSE,        \* the call wrote the cache
   wrote_at |-> 0,         \* the clock when it wrote
   after |-> {},           \* the tasks whose call had written when it wrote
   over_time |-> -1]       \* the timestamp of the entry it overwrote, if any

\* What the Exposure Service client hands back or raises (clients.py:255-292):
\* the decoded JSON body, httpx.HTTPStatusError from raise_for_status(), or
\* any other exception.  value is the field the caller reads, "" when the
\* body has none.
Ok(v) == [kind |-> "ok", status |-> 200, value |-> v]
HttpError(s) == [kind |-> "http_error", status |-> s, value |-> ""]
OtherError == [kind |-> "error", status |-> 0, value |-> ""]
NoReply == [kind |-> "none", status |-> 0, value |-> ""]

AnalysisIds == {"0a1b2c3d-0000-4000-8000-000000000001", "not-a-uuid"}

\* uuid.UUID(analysis_id) does not raise
IsUUID(analysis_id) == analysis_id # "not-a-uuid"

ExternalIdReplies == {Ok("E1"), Ok(""), HttpError(404), HttpError(500), OtherError}

AsyncDataReplies == {Ok("abc123"), Ok(""), HttpError(404), HttpError(500), OtherError}

\* Python's None as a return value of get_analysis_subdomain
None == "None"

NoRes == [analysis_id |-> "-", max_retries |-> 0, retry_delay |-> 0,
          external_id |-> "", attempt |-> 0, wake |-> 0]
NoRTrace ==
  [ext_calls |-> 0,          \* get_external_id calls made
   ext_reply |-> NoReply,    \* what get_external_id gave
   async_calls |-> 0,        \* get_async_data calls made
   async_replies |-> <<>>,   \* what each get_async_data call gave
   sleeps |-> <<>>]          \* the delays slept, in order

\* The locals of a route handler: which handler runs, the analysis id it
\* works on, the exception its Apps Service call raised, the exception that
\* came out of the Resolver or the Prober, the body the Apps Service call
\* returned, and the cache as the request found it.
NoReq == [op |-> "none", analysis_id |-> "-", raised |-> NoReply,
          callee |-> NoReply,
          analysis |-> [status |-> "", subdomain |-> ""],
          response |-> [id |-> "", name |-> "", status |-> ""],
          name |-> "", cache |-> <<>>]

\* What a route handler gave its caller: the dict it returned, or the
\* exception that left it.
NoHttp == [kind |-> "none", error |-> NoReply, body |-> [analysis_id |-> "-"]]

\* ------------------------------------------------------------------- Init
\* The process is up: no request is being served, the configuration has been
\* read (config.py:82-89), and the cache is one of caches: empty as at import
\* (apps.py:31), or as earlier probes left it.
Init(retry_counts, ttls, clients, caches) ==
  /\ now = 0
  /\ vice_url_check_retries \in retry_counts
  /\ vice_url_check_cache_ttl \in ttls
  /\ vice_url_cache \in caches
  /\ pc = [p \in Tasks |-> "idle"]
  /\ chk = [p \in Tasks |-> NoChk]
  /\ result = [p \in Tasks |-> NoResult]
  /\ calls = 0
  /\ trace = [p \in Tasks |-> NoTrace]
  /\ returned = vice_url_cache
  /\ app_exposer_client \in clients
  /\ res = [p \in Tasks |-> NoRes]
  /\ subdomain = [p \in Tasks |-> None]
  /\ rtrace = [p \in Tasks |-> NoRTrace]
  /\ req = [p \in Tasks |-> NoReq]
  /\ http = [p \in Tasks |-> NoHttp]
  /\ log = [p \in Tasks |-> <<>>]

\* apps.py:376-380  the module's apps_client, set when a base url is configured
AppsConfigured(clients) == apps_client \in clients

cfgvars == <<vice_url_check_retries, vice_url_check_cache_ttl, app_exposer_client>>

probervars == <<vice_url_cache, chk, result, calls, trace, returned>>

resolvervars == <<res, subdomain, rtrace>>

requestvars == <<apps_client, req, http, log>>

\* Where the coroutine of task p continues when its check_vice_url_ready
\* returns: in the route handler that awaits it (apps.py:885), or nowhere
\* when the function was called on its own.
AfterProber(p) == IF req[p].op = "none" THEN "done" ELSE "probed"

\* The same for get_analysis_subdomain (apps.py:841, 878).
AfterResolver(p) == IF req[p].op = "none" THEN "done" ELSE "resolved"

\* ------------------------------------------------- check_vice_url_ready
\* The history tr of the call of task p, with its write under url noted.
WriteNoted(p, tr, url) ==
  [tr EXCEPT !.wrote = TRUE,
             !.wrote_at = now,
             !.after = {q \in Tasks \ {p} : trace[q].wrote},
             !.over_time = IF url \in DOMAIN vice_url_cache
                             THEN vice_url_cache[url].time
                             ELSE -1]

StoreAndReturnStampedAtWrite(p, ready, details, tr) ==
  LET c == chk[p] IN
  /\ vice_url_cache' = CacheStore(vice_url_cache, c.url, now, ready, details)
  /\ result' = [result EXCEPT ![p] = [ready |-> ready, details |-> details]]
  /\ returned' =
       [u \in DOMAIN returned \cup {c.url} |->
          IF u = c.url
            THEN [time |-> now, ready |-> ready, details |-> details]
            ELSE returned[u]]
  /\ trace' = [trace EXCEPT ![p] = WriteNoted(p, tr, c.url)]
  /\ pc' = [pc EXCEPT ![p] = AfterProber(p)]
  /\ UNCHANGED chk

\* The call returns: the result is cached under the url and handed back
\* (apps.py:93-95, 107-108, 119-120, 124-125; no await in between).
StoreAndReturn(p, ready, details, tr) ==
  LET c == chk[p] IN
  /\ vice_url_cache' =
       CacheStore(vice_url_cache, c.url, c.current_time, ready, details)
  /\ result' = [result EXCEPT ![p] = [ready |-> ready, details |-> details]]
  /\ returned' =
       [u \in DOMAIN returned \cup {c.url} |->
          IF u = c.url
            THEN [time |-> c.current_time, ready |-> ready, details |-> details]
            ELSE returned[u]]
  /\ trace' = [trace EXCEPT ![p] = WriteNoted(p, tr, c.url)]
  /\ pc' = [pc EXCEPT ![p] = AfterProber(p)]
  /\ UNCHANGED chk

StartAttemptEvicting(p, c, attempt, tr) ==
  /\ chk' = [chk EXCEPT ![p] = [c EXCEPT !.attempt = attempt, !.start_time = now]]
  /\ trace' = [trace EXCEPT ![p] =
                 [tr EXCEPT !.heads = @ + 1, !.head = Pending,
                            !.get = NotSent, !.fallback = NotSent]]
  /\ pc' = [pc EXCEPT ![p] = "head"]
  /\ vice_url_cache' = [u \in DOMAIN vice_url_cache \ {c.url} |-> vice_url_cache[u]]
  /\ UNCHANGED <<result, returned>>

\* An attempt starts: start_time is read and the HEAD request is sent
\* (apps.py:60-70).
StartAttempt(p, c, attempt, tr) ==
  /\ chk' = [chk EXCEPT ![p] = [c EXCEPT !.attempt = attempt, !.start_time = now]]
  /\ trace' = [trace EXCEPT ![p] =
                 [tr EXCEPT !.heads = @ + 1, !.head = Pending,
                            !.get = NotSent, !.fallback = NotSent]]
  /\ pc' = [pc EXCEPT ![p] = "head"]
  /\ UNCHANGED <<vice_url_cache, result, returned>>

\* apps.py:49-60, 122-125  entry: the cache lookup, then the first attempt
check_vice_url_ready(p, url) ==
  /\ calls' = calls + 1
  /\ LET current_time == now
         had == url \in DOMAIN vice_url_cache
         tr == [NoTrace EXCEPT
                  !.had_entry = had,
                  !.seen = IF had THEN vice_url_cache[url] ELSE @,
                  !.has_prev = url \in DOMAIN returned,
                  !.prev = IF url \in DOMAIN returned THEN returned[url] ELSE @]
         c == [NoChk EXCEPT !.url = url, !.current_time = current_time]
     IN IF had /\ CacheFresh(current_time, vice_url_cache[url].time)
          THEN /\ result' = [result EXCEPT ![p] =
                               [ready |-> vice_url_cache[url].ready,
                                details |-> vice_url_cache[url].details]]
               /\ chk' = [chk EXCEPT ![p] = c]
               /\ trace' = [trace EXCEPT ![p] = [tr EXCEPT !.hit = TRUE]]
               /\ pc' = [pc EXCEPT ![p] = AfterProber(p)]
               /\ UNCHANGED <<vice_url_cache, returned>>
          ELSE IF vice_url_check_retries <= 0
            THEN /\ chk' = [chk EXCEPT ![p] = c]
                 /\ vice_url_cache' =
                      CacheStore(vice_url_cache, url, current_time, FALSE, ExceededDetails)
                 /\ result' = [result EXCEPT ![p] =
                                 [ready |-> FALSE, details |-> ExceededDetails]]
                 /\ returned' =
                      [u \in DOMAIN returned \cup {url} |->
                         IF u = url
                           THEN [time |-> current_time, ready |-> FALSE,
                                 details |-> ExceededDetails]
                           ELSE returned[u]]
                 /\ trace' = [trace EXCEPT ![p] = WriteNoted(p, tr, url)]
                 /\ pc' = [pc EXCEPT ![p] = AfterProber(p)]
            ELSE StartAttempt(p, c, 0, tr)
  /\ UNCHANGED <<now, cfgvars, resolvervars>>

\* apps.py:97-120  an attempt ended with exception e
AttemptFailed(p, e, tr0) ==
  LET c == chk[p]
      tr == [tr0 EXCEPT !.fails = Append(@, e)]
  IN IF MoreAttempts(c.attempt)
       THEN /\ chk' = [chk EXCEPT ![p].wake = now + Backoff(c.attempt)]
            /\ trace' = [trace EXCEPT ![p] =
                           [tr EXCEPT !.sleeps = Append(@, Backoff(c.attempt))]]
            /\ pc' = [pc EXCEPT ![p] = "backoff"]
            /\ UNCHANGED <<vice_url_cache, result, returned>>
       ELSE IF IsTimeoutException(e)
         THEN StoreAndReturn(p, FALSE, TimeoutDetails(c.attempt), tr)
         ELSE StoreAndReturn(p, FALSE, ErrorDetails(e, c.attempt), tr)

AttemptAnsweredRetryUnlessReady(p, status_code, tr) ==
  LET c == chk[p] IN
  IF IsReady(status_code)
    THEN StoreAndReturn(p, TRUE,
                        ResponseDetails(status_code, c.start_time, c.attempt), tr)
    ELSE AttemptFailed(p, "ReadError", tr)

\* apps.py:81-95  the attempt has its final response
AttemptAnswered(p, status_code, tr) ==
  LET c == chk[p] IN
  StoreAndReturn(p, IsReady(status_code),
                 ResponseDetails(status_code, c.start_time, c.attempt), tr)

\* apps.py:70-73  the HEAD request is answered
HeadResponse(p, status_code) ==
  /\ pc[p] = "head"
  /\ LET tr == [trace[p] EXCEPT !.head = Resp(status_code), !.only_timeouts = FALSE] IN
     IF HeadNeedsGet(status_code)
       THEN /\ trace' = [trace EXCEPT ![p] =
                           [tr EXCEPT !.gets = @ + 1, !.get = Pending]]
            /\ pc' = [pc EXCEPT ![p] = "get"]
            /\ UNCHANGED <<vice_url_cache, result, returned, chk>>
       ELSE AttemptAnswered(p, status_code, tr)
  /\ UNCHANGED <<now, cfgvars, calls, resolvervars>>

\* apps.py:77-79  except Exception: response = await client.get(url)
SendFallbackGet(p, tr) ==
  /\ trace' = [trace EXCEPT ![p] = [tr EXCEPT !.gets = @ + 1, !.fallback = Pending]]
  /\ pc' = [pc EXCEPT ![p] = "fallback"]
  /\ UNCHANGED <<vice_url_cache, result, returned, chk>>

\* apps.py:70, 74-79  the HEAD request raises
HeadError(p, e) ==
  /\ pc[p] = "head"
  /\ LET tr == [trace[p] EXCEPT !.head = Raised(e),
                                !.only_timeouts = @ /\ IsTimeoutException(e)] IN
     IF IsConnectError(e)
       THEN AttemptFailed(p, e, tr)
       ELSE SendFallbackGet(p, tr)
  /\ UNCHANGED <<now, cfgvars, calls, resolvervars>>

\* apps.py:73, 81-95  the GET sent after a HEAD answer of 404 or 405 is answered
GetResponse(p, status_code) ==
  /\ pc[p] = "get"
  /\ AttemptAnswered(p, status_code, [trace[p] EXCEPT !.get = Resp(status_code), !.only_timeouts = FALSE])
  /\ UNCHANGED <<now, cfgvars, calls, resolvervars>>

\* apps.py:73-79  that GET raises, inside the try block of the HEAD
GetError(p, e) ==
  /\ pc[p] = "get"
  /\ LET tr == [trace[p] EXCEPT !.get = Raised(e),
                                !.only_timeouts = @ /\ IsTimeoutException(e)] IN
     IF IsConnectError(e)
       THEN AttemptFailed(p, e, tr)
       ELSE SendFallbackGet(p, tr)
  /\ UNCHANGED <<now, cfgvars, calls, resolvervars>>

\* apps.py:79, 81-95  the GET of the exception handler is answered
FallbackResponse(p, status_code) ==
  /\ pc[p] = "fallback"
  /\ AttemptAnswered(p, status_code, [trace[p] EXCEPT !.fallback = Resp(status_code), !.only_timeouts = FALSE])
  /\ UNCHANGED <<now, cfgvars, calls, resolvervars>>

\* apps.py:79, 97-120  the GET of the exception handler raises
FallbackError(p, e) ==
  /\ pc[p] = "fallback"
  /\ AttemptFailed(p, e, [trace[p] EXCEPT
                             !.fallback = Raised(e),
                             !.only_timeouts = @ /\ IsTimeoutException(e)])
  /\ UNCHANGED <<now, cfgvars, calls, resolvervars>>

\* apps.py:100-101, 112-113  the backoff sleep is over: the next attempt
BackoffOver(p) ==
  /\ pc[p] = "backoff"
  /\ now >= chk[p].wake
  /\ StartAttempt(p, chk[p], chk[p].attempt + 1, trace[p])
  /\ UNCHANGED <<now, cfgvars, calls, resolvervars>>

\* The clock advances by half a second.
Tick(limit) ==
  /\ now < limit
  /\ now' = now + 1
  /\ UNCHANGED <<cfgvars, pc, probervars, resolvervars, requestvars>>

\* ----------------------------------------------- get_analysis_subdomain
ExternalIdFoundAnyBody(reply) == reply.kind = "ok"

\* apps.py:152-158  the lookup returned and its body has a truthy external_id
ExternalIdFound(reply) == reply.kind = "ok" /\ reply.value # ""

\* apps.py:164-167  the call returned and its body has a truthy subdomain
SubdomainFound(reply) == reply.kind = "ok" /\ reply.value # ""

IsNotFoundAnyStatus(reply) == reply.kind = "http_error"

\* apps.py:169-171  httpx.HTTPStatusError with status code 404
IsNotFound(reply) == reply.kind = "http_error" /\ reply.status = 404

MoreAsyncAttemptsInclusive(attempt, max_retries) == attempt < max_retries

\* apps.py:172  attempt < max_retries - 1
MoreAsyncAttempts(attempt, max_retries) == attempt < max_retries - 1

RetrySleepDoubling(retry_delay, attempt) == retry_delay * Pow2(attempt)

\* apps.py:173  asyncio.sleep(retry_delay)
RetrySleep(retry_delay, attempt) == retry_delay

\* apps.py:148, 158, 167, 189  the call returns value
ResolverReturn(p, value, r, tr) ==
  /\ subdomain' = [subdomain EXCEPT ![p] = value]
  /\ res' = [res EXCEPT ![p] = r]
  /\ rtrace' = [rtrace EXCEPT ![p] = tr]
  /\ pc' = [pc EXCEPT ![p] = AfterResolver(p)]

AsyncAttemptAfterDelay(p, attempt, r, tr) ==
  IF attempt < r.max_retries
    THEN IF pc[p] = "async_data"
      THEN /\ res' = [res EXCEPT ![p] = [r EXCEPT !.wake = now + r.retry_delay]]
           /\ rtrace' = [rtrace EXCEPT ![p] =
                           [tr EXCEPT !.sleeps = Append(@, r.retry_delay)]]
           /\ pc' = [pc EXCEPT ![p] = "retry_sleep"]
           /\ UNCHANGED subdomain
      ELSE /\ res' = [res EXCEPT ![p] = [r EXCEPT !.attempt = attempt]]
           /\ rtrace' = [rtrace EXCEPT ![p] = [tr EXCEPT !.async_calls = @ + 1]]
           /\ pc' = [pc EXCEPT ![p] = "async_data"]
           /\ UNCHANGED subdomain
    ELSE ResolverReturn(p, None, r, tr)

\* apps.py:161-163  the iteration `attempt` of the loop over range(max_retries):
\* get_async_data is called, or the loop is over and None is returned
AsyncAttempt(p, attempt, r, tr) ==
  IF attempt < r.max_retries
    THEN /\ res' = [res EXCEPT ![p] = [r EXCEPT !.attempt = attempt]]
         /\ rtrace' = [rtrace EXCEPT ![p] = [tr EXCEPT !.async_calls = @ + 1]]
         /\ pc' = [pc EXCEPT ![p] = "async_data"]
         /\ UNCHANGED subdomain
    ELSE ResolverReturn(p, None, r, tr)

\* apps.py:147-154, 185-189  entry, up to the get_external_id call
get_analysis_subdomain(p, analysis_id, max_retries, retry_delay) ==
  /\ LET r == [NoRes EXCEPT !.analysis_id = analysis_id,
                            !.max_retries = max_retries,
                            !.retry_delay = retry_delay]
     IN IF ~app_exposer_client
          THEN ResolverReturn(p, None, r, NoRTrace)
          ELSE IF ~IsUUID(analysis_id)
            THEN ResolverReturn(p, None, r, NoRTrace)
            ELSE /\ res' = [res EXCEPT ![p] = r]
                 /\ rtrace' = [rtrace EXCEPT ![p] = [NoRTrace EXCEPT !.ext_calls = 1]]
                 /\ pc' = [pc EXCEPT ![p] = "external_id"]
                 /\ UNCHANGED subdomain
  /\ UNCHANGED <<now, cfgvars, probervars>>

\* apps.py:152-163, 185-189  get_external_id returns or raises
ExternalIdReply(p, reply) ==
  /\ pc[p] = "external_id"
  /\ LET tr == [rtrace[p] EXCEPT !.ext_reply = reply] IN
     IF ExternalIdFound(reply)
       THEN AsyncAttempt(p, 0, [res[p] EXCEPT !.external_id = reply.value], tr)
       ELSE ResolverReturn(p, None, res[p], tr)
  /\ UNCHANGED <<now, cfgvars, probervars>>

\* apps.py:163-183, 189  get_async_data returns or raises
AsyncDataReply(p, reply) ==
  /\ pc[p] = "async_data"
  /\ LET r == res[p]
         tr == [rtrace[p] EXCEPT !.async_replies = Append(@, reply)]
     IN IF SubdomainFound(reply)
          THEN ResolverReturn(p, reply.value, r, tr)
          ELSE IF reply.kind = "ok"
            THEN AsyncAttempt(p, r.attempt + 1, r, tr)
            ELSE IF IsNotFound(reply) /\ MoreAsyncAttempts(r.attempt, r.max_retries)
              THEN /\ res' = [res EXCEPT ![p] =
                                [r EXCEPT !.wake = now + RetrySleep(r.retry_delay, r.attempt)]]
                   /\ rtrace' = [rtrace EXCEPT ![p] =
                                   [tr EXCEPT !.sleeps =
                                      Append(@, RetrySleep(r.retry_delay, r.attempt))]]
                   /\ pc' = [pc EXCEPT ![p] = "retry_sleep"]
                   /\ UNCHANGED subdomain
              ELSE ResolverReturn(p, None, r, tr)
  /\ UNCHANGED <<now, cfgvars, probervars>>

\* apps.py:173-174  the sleep is over: continue with the next iteration
RetrySleepOver(p) ==
  /\ pc[p] = "retry_sleep"
  /\ now >= res[p].wake
  /\ AsyncAttempt(p, res[p].attempt + 1, res[p], rtrace[p])
  /\ UNCHANGED <<now, cfgvars, probervars>>

\* ------------------------------------------------------------ prober runs
\* One task makes one call on an empty cache, against every endpoint
\* behaviour.
ProbeTasks == {1}

InitProbe == Init((-1)..MaxProbeRetries, {MaxTTL}, {TRUE}, {<<>>}) /\ AppsConfigured({TRUE})

ProbeCall(p, u) == pc[p] = "idle" /\ check_vice_url_ready(p, u)

TickProbe == Tick(MaxTime)

NextProbe ==
  \/ \E p \in ProbeTasks, u \in URLs : ProbeCall(p, u) /\ UNCHANGED requestvars
  \/ \E p \in ProbeTasks, s \in StatusCodes : HeadResponse(p, s) /\ UNCHANGED requestvars
  \/ \E p \in ProbeTasks, e \in Errors : HeadError(p, e) /\ UNCHANGED requestvars
  \/ \E p \in ProbeTasks, s \in StatusCodes : GetResponse(p, s) /\ UNCHANGED requestvars
  \/ \E p \in ProbeTasks, e \in Errors : GetError(p, e) /\ UNCHANGED requestvars
  \/ \E p \in ProbeTasks, s \in StatusCodes : FallbackResponse(p, s) /\ UNCHANGED requestvars
  \/ \E p \in ProbeTasks, e \in Errors : FallbackError(p, e) /\ UNCHANGED requestvars
  \/ \E p \in ProbeTasks : BackoffOver(p) /\ UNCHANGED requestvars
  \/ TickProbe

SpecProbe == InitProbe /\ [][NextProbe]_vars

\* ------------------------------------------------------------- cache runs
\* One task makes call after call, so that calls meet the entries earlier
\* calls left in the cache.
CacheStatusCodes == {200, 405, 500}

CacheErrors == {"ConnectError", "ReadTimeout"}

InitCache == Init((-1)..MaxCacheRetries, 0..MaxTTL, {TRUE}, {<<>>}) /\ AppsConfigured({TRUE})

CacheCall(p, u) ==
  /\ pc[p] \in {"idle", "done"}
  /\ calls < MaxCalls
  /\ check_vice_url_ready(p, u)

TickCache == Tick(MaxCacheTime)

NextCache ==
  \/ \E p \in ProbeTasks, u \in URLs : CacheCall(p, u) /\ UNCHANGED requestvars
  \/ \E p \in ProbeTasks, s \in CacheStatusCodes : HeadResponse(p, s) /\ UNCHANGED requestvars
  \/ \E p \in ProbeTasks, e \in CacheErrors : HeadError(p, e) /\ UNCHANGED requestvars
  \/ \E p \in ProbeTasks, s \in CacheStatusCodes : GetResponse(p, s) /\ UNCHANGED requestvars
  \/ \E p \in ProbeTasks, e \in CacheErrors : GetError(p, e) /\ UNCHANGED requestvars
  \/ \E p \in ProbeTasks, s \in CacheStatusCodes : FallbackResponse(p, s) /\ UNCHANGED requestvars
  \/ \E p \in ProbeTasks, e \in CacheErrors : FallbackError(p, e) /\ UNCHANGED requestvars
  \/ \E p \in ProbeTasks : BackoffOver(p) /\ UNCHANGED requestvars
  \/ TickCache

SpecCache == InitCache /\ [][NextCache]_vars

\* ---------------------------------------------------------- resolver runs
\* One task resolves one analysis id against every behaviour of the
\* Exposure Service.
InitResolve == Init({DefaultProbeRetries}, {MaxTTL}, BOOLEAN, {<<>>}) /\ AppsConfigured({TRUE})

ResolveCall(p, a, n) ==
  /\ pc[p] = "idle"
  /\ get_analysis_subdomain(p, a, n, DefaultRetryDelay)

TickResolve == Tick(MaxResolveTime)

NextResolve ==
  \/ \E p \in ProbeTasks, a \in AnalysisIds, n \in 1..MaxAsyncRetries :
       ResolveCall(p, a, n) /\ UNCHANGED requestvars
  \/ \E p \in ProbeTasks, r \in ExternalIdReplies : ExternalIdReply(p, r) /\ UNCHANGED requestvars
  \/ \E p \in ProbeTasks, r \in AsyncDataReplies : AsyncDataReply(p, r) /\ UNCHANGED requestvars
  \/ \E p \in ProbeTasks : RetrySleepOver(p) /\ UNCHANGED requestvars
  \/ TickResolve

SpecResolve == InitResolve /\ [][NextResolve]_vars

\* ---------------------------------------------------------- route handlers
\* config.py:70-72  config.vice_domain
vice_domain == ".cyverse.run"

UrlWithoutSuffix(sub) == "https://" \o sub

\* apps.py:843, 884, 894  f"https://{subdomain}{config.vice_domain}"
Url(sub) == "https://" \o sub \o vice_domain

\* Python truth of a returned subdomain: neither None nor "".
Truthy(v) == v # None /\ v # ""

\* utils.py:50-59
is_placeholder_value(value) == value = "" \/ value = "string"

\* exceptions.py:21-27
ServiceUnavailableError(service_name) ==
  [kind |-> "ServiceUnavailableError", status |-> 503, value |-> service_name]

\* dependencies.py:115-120  extract_user_from_jwt finds no username
NoUserIdentity == [kind |-> "HTTPException", status |-> 401, value |-> ""]

\* utils.py:9-30, exceptions.py:51-56  validate_uuid raises
ValidationError(field) == [kind |-> "ValidationError", status |-> 400, value |-> field]

\* The usernames extract_user_from_jwt finds; "" when the token has none.
Usernames == {"testuser", ""}

AppIds == {"0a1b2c3d-0000-4000-8000-0000000000aa", "not-a-uuid"}

\* The job records get_analysis returns; "" stands for a key the record
\* does not have.
Analyses == {[status |-> "Running", subdomain |-> ""],
             [status |-> "", subdomain |-> ""],
             [status |-> "Running", subdomain |-> "xyz789"]}

\* clients.py:98-111  raise_for_status(), the raised 404 of an empty listing,
\* or a transport error
AnalysisErrors == {HttpError(404), HttpError(500), OtherError}

\* The names a submission carries.
SubmissionNames == {"Test Analysis", ""}

\* The bodies submit_analysis returns.
SubmitResponses ==
  {[id |-> "0a1b2c3d-0000-4000-8000-000000000001", name |-> "Test Analysis",
    status |-> "Submitted"],
   [id |-> "0a1b2c3d-0000-4000-8000-000000000001", name |-> "", status |-> ""],
   [id |-> "not-a-uuid", name |-> "Test Analysis", status |-> "Submitted"],
   [id |-> "", name |-> "Test Analysis", status |-> "Submitted"]}

SubmitErrors == {HttpError(400), HttpError(500), OtherError}

\* The replies of get_app inside generate_analysis_name.
GetAppReplies == {Ok("Jupyter Lab"), Ok(""), HttpError(500), OtherError}

\* apps.py:252-254  app_data.get("name", "analysis"), cleaned
CleanAppName(reply) ==
  IF reply.value = "Jupyter Lab" THEN "jupyter-lab"
  ELSE IF reply.value = "" THEN "analysis"
  ELSE reply.value

\* apps.py:245-261  the generated name; the timestamp is left symbolic
GeneratedName(reply) ==
  (IF reply.kind = "ok" THEN CleanAppName(reply) ELSE "analysis") \o "-<timestamp>"

\* dict d with d[k] = v
WithKey(d, k, v) == [x \in DOMAIN d \cup {k} |-> IF x = k THEN v ELSE d[x]]

\* An exception leaves the handler.
Raise(p, e) ==
  /\ pc' = [pc EXCEPT ![p] = "failed"]
  /\ http' = [http EXCEPT ![p] = [NoHttp EXCEPT !.kind = "error", !.error = e]]

\* The handler returns body.
Return(p, body) ==
  /\ pc' = [pc EXCEPT ![p] = "responded"]
  /\ http' = [http EXCEPT ![p] = [NoHttp EXCEPT !.kind = "ok", !.body = body]]

\* A handler starts with fresh locals: those of the task's earlier request
\* are gone.
FreshLocals(p) ==
  /\ chk' = [chk EXCEPT ![p] = NoChk]
  /\ result' = [result EXCEPT ![p] = NoResult]
  /\ trace' = [trace EXCEPT ![p] = NoTrace]
  /\ res' = [res EXCEPT ![p] = NoRes]
  /\ subdomain' = [subdomain EXCEPT ![p] = None]
  /\ rtrace' = [rtrace EXCEPT ![p] = NoRTrace]

StatusResultUrlAlways(analysis_id, analysis, sub, url_ready, url_check_details) ==
  LET base == [analysis_id |-> analysis_id,
               status |-> IF analysis.status = "" THEN "Unknown" ELSE analysis.status,
               url_ready |-> url_ready]
      with_url == WithKey(base, "url", Url(sub))
  IN IF DOMAIN url_check_details # {}
       THEN WithKey(with_url, "url_check_details", url_check_details)
       ELSE with_url

StatusResultDetailsWhenReady(analysis_id, analysis, sub, url_ready, url_check_details) ==
  LET base == [analysis_id |-> analysis_id,
               status |-> IF analysis.status = "" THEN "Unknown" ELSE analysis.status,
               url_ready |-> url_ready]
      with_url == IF Truthy(sub) THEN WithKey(base, "url", Url(sub)) ELSE base
  IN IF url_ready
       THEN WithKey(with_url, "url_check_details", url_check_details)
       ELSE with_url

\* apps.py:880-900  the dict get_app_status returns
StatusResult(analysis_id, analysis, sub, url_ready, url_check_details) ==
  LET base == [analysis_id |-> analysis_id,
               status |-> IF analysis.status = "" THEN "Unknown" ELSE analysis.status,
               url_ready |-> url_ready]
      with_url == IF Truthy(sub) THEN WithKey(base, "url", Url(sub)) ELSE base
  IN IF DOMAIN url_check_details # {}
       THEN WithKey(with_url, "url_check_details", url_check_details)
       ELSE with_url

\* apps.py:866-875  entry, up to the get_analysis call
get_app_status(p, analysis_id, username) ==
  /\ req' = [req EXCEPT ![p] = [NoReq EXCEPT !.op = "status",
                                             !.analysis_id = analysis_id,
                                             !.cache = vice_url_cache]]
  /\ IF ~apps_client \/ ~app_exposer_client
       THEN Raise(p, ServiceUnavailableError("Required services"))
       ELSE IF username = ""
         THEN Raise(p, NoUserIdentity)
         ELSE IF ~IsUUID(analysis_id)
           THEN Raise(p, ValidationError("analysis_id"))
           ELSE /\ pc' = [pc EXCEPT ![p] = "get_analysis"]
                /\ http' = [http EXCEPT ![p] = NoHttp]
  /\ FreshLocals(p)
  /\ UNCHANGED <<now, cfgvars, apps_client, vice_url_cache, calls, returned>>

AnalysisReturnedUsesRecord(p, analysis) ==
  /\ pc[p] = "get_analysis"
  /\ req' = [req EXCEPT ![p].analysis = analysis]
  /\ IF analysis.subdomain # ""
       THEN /\ subdomain' = [subdomain EXCEPT ![p] = analysis.subdomain]
            /\ pc' = [pc EXCEPT ![p] = "resolved"]
            /\ UNCHANGED <<now, cfgvars, probervars, res, rtrace>>
       ELSE get_analysis_subdomain(p, req[p].analysis_id,
                                   DefaultMaxRetries, DefaultRetryDelay)
  /\ UNCHANGED <<apps_client, http>>

AnalysisReturnedRemembersJob(p, analysis) ==
  /\ pc[p] = "get_analysis"
  /\ req' = [req EXCEPT ![p].analysis = analysis]
  /\ IF Url("abc123") \in DOMAIN vice_url_cache
       THEN /\ subdomain' = [subdomain EXCEPT ![p] = "abc123"]
            /\ pc' = [pc EXCEPT ![p] = "resolved"]
            /\ UNCHANGED <<now, cfgvars, probervars, res, rtrace>>
       ELSE get_analysis_subdomain(p, req[p].analysis_id,
                                   DefaultMaxRetries, DefaultRetryDelay)
  /\ UNCHANGED <<apps_client, http>>

\* apps.py:875-878  get_analysis returns the job record: the Resolver is called
AnalysisReturned(p, analysis) ==
  /\ pc[p] = "get_analysis"
  /\ req' = [req EXCEPT ![p].analysis = analysis]
  /\ get_analysis_subdomain(p, req[p].analysis_id, DefaultMaxRetries, DefaultRetryDelay)
  /\ UNCHANGED <<apps_client, http>>

AnalysisRaisedSwallowed(p, e) ==
  /\ pc[p] = "get_analysis"
  /\ req' = [req EXCEPT ![p].raised = e]
  /\ get_analysis_subdomain(p, req[p].analysis_id, DefaultMaxRetries, DefaultRetryDelay)
  /\ UNCHANGED <<apps_client, http>>

\* apps.py:875  get_analysis raises: nothing in the handler catches it
AnalysisRaised(p, e) ==
  /\ pc[p] = "get_analysis"
  /\ req' = [req EXCEPT ![p].raised = e]
  /\ Raise(p, e)
  /\ UNCHANGED <<now, cfgvars, apps_client, probervars, resolvervars>>

StatusResolvedOrNotFound(p) ==
  /\ pc[p] = "resolved"
  /\ req[p].op = "status"
  /\ IF Truthy(subdomain[p])
       THEN /\ check_vice_url_ready(p, Url(subdomain[p]))
            /\ UNCHANGED <<apps_client, req, http>>
       ELSE /\ Raise(p, HttpError(404))
            /\ UNCHANGED <<now, cfgvars, apps_client, req, probervars, resolvervars>>

\* apps.py:878-900  the Resolver has returned: the Prober is called on the
\* url of the subdomain, or the handler returns without a url
StatusResolved(p) ==
  /\ pc[p] = "resolved"
  /\ req[p].op = "status"
  /\ IF Truthy(subdomain[p])
       THEN /\ check_vice_url_ready(p, Url(subdomain[p]))
            /\ UNCHANGED <<apps_client, req, http>>
       ELSE /\ Return(p, StatusResult(req[p].analysis_id, req[p].analysis,
                                      subdomain[p], FALSE, <<>>))
            /\ UNCHANGED <<now, cfgvars, apps_client, req, probervars, resolvervars>>

\* apps.py:885-900  the Prober has returned
StatusProbed(p) ==
  /\ pc[p] = "probed"
  /\ req[p].op = "status"
  /\ Return(p, StatusResult(req[p].analysis_id, req[p].analysis, subdomain[p],
                            result[p].ready, result[p].details))
  /\ UNCHANGED <<now, cfgvars, apps_client, req, probervars, resolvervars>>

LaunchResultUrlAlways(response, name, sub) ==
  LET base == [analysis_id |-> response.id,
               name |-> IF response.name = "" THEN name ELSE response.name,
               status |-> IF response.status = "" THEN "Submitted" ELSE response.status]
  IN IF Truthy(response.id)
       THEN WithKey(base, "url", Url(sub))
       ELSE base

\* apps.py:831-845  the dict launch_app returns
LaunchResult(response, name, sub) ==
  LET base == [analysis_id |-> response.id,
               name |-> IF response.name = "" THEN name ELSE response.name,
               status |-> IF response.status = "" THEN "Submitted" ELSE response.status]
  IN IF Truthy(response.id) /\ Truthy(sub)
       THEN WithKey(base, "url", Url(sub))
       ELSE base

\* apps.py:804-823, 350-355  entry, up to the first await: get_app inside
\* generate_analysis_name for a placeholder name, else submit_analysis
launch_app(p, app_id, username, name) ==
  /\ req' = [req EXCEPT ![p] = [NoReq EXCEPT !.op = "launch", !.name = name,
                                             !.cache = vice_url_cache]]
  /\ IF ~apps_client
       THEN Raise(p, ServiceUnavailableError("Apps"))
       ELSE IF username = ""
         THEN Raise(p, NoUserIdentity)
         ELSE IF ~IsUUID(app_id)
           THEN Raise(p, ValidationError("app_id"))
           ELSE /\ pc' = [pc EXCEPT ![p] =
                            IF is_placeholder_value(name)
                              THEN "get_app" ELSE "submit_analysis"]
                /\ http' = [http EXCEPT ![p] = NoHttp]
  /\ FreshLocals(p)
  /\ UNCHANGED <<now, cfgvars, apps_client, vice_url_cache, calls, returned>>

\* apps.py:247-261, 352-355, 825  get_app returns or raises: the name is
\* generated either way and the submission is sent
GetAppReply(p, reply) ==
  /\ pc[p] = "get_app"
  /\ req' = [req EXCEPT ![p].name = GeneratedName(reply)]
  /\ pc' = [pc EXCEPT ![p] = "submit_analysis"]
  /\ UNCHANGED <<now, cfgvars, apps_client, http, probervars, resolvervars>>

\* apps.py:825-845  submit_analysis returns: the Resolver is called when the
\* response has an id, else the handler returns
SubmitReturned(p, response) ==
  /\ pc[p] = "submit_analysis"
  /\ req' = [req EXCEPT ![p].response = response, ![p].analysis_id = response.id]
  /\ IF Truthy(response.id)
       THEN /\ get_analysis_subdomain(p, response.id, DefaultMaxRetries, DefaultRetryDelay)
            /\ UNCHANGED <<apps_client, http>>
       ELSE /\ Return(p, LaunchResult(response, req[p].name, None))
            /\ UNCHANGED <<now, cfgvars, apps_client, probervars, resolvervars>>

\* apps.py:825  submit_analysis raises
SubmitRaised(p, e) ==
  /\ pc[p] = "submit_analysis"
  /\ req' = [req EXCEPT ![p].raised = e]
  /\ Raise(p, e)
  /\ UNCHANGED <<now, cfgvars, apps_client, probervars, resolvervars>>

\* apps.py:841-845  the Resolver has returned
LaunchResolved(p) ==
  /\ pc[p] = "resolved"
  /\ req[p].op = "launch"
  /\ Return(p, LaunchResult(req[p].response, req[p].name, subdomain[p]))
  /\ UNCHANGED <<now, cfgvars, apps_client, req, probervars, resolvervars>>

\* The outgoing call the step of task p makes, if any.
NewCalls(p) ==
  IF pc'[p] = "get_analysis" /\ pc[p] # "get_analysis" THEN <<"get_analysis">>
  ELSE IF pc'[p] = "get_app" /\ pc[p] # "get_app" THEN <<"get_app">>
  ELSE IF pc'[p] = "submit_analysis" /\ pc[p] # "submit_analysis"
    THEN <<"submit_analysis">>
  ELSE IF pc'[p] = "external_id" /\ pc[p] # "external_id" THEN <<"get_external_id">>
  ELSE IF pc'[p] = "async_data"
          /\ rtrace'[p].async_calls # rtrace[p].async_calls THEN <<"get_async_data">>
  ELSE IF pc'[p] = "head" /\ pc[p] # "head" THEN <<"HEAD">>
  ELSE IF pc'[p] \in {"get", "fallback"} /\ pc'[p] # pc[p] THEN <<"GET">>
  ELSE <<>>

\* The step of task p is recorded in its request's log.
Logged(p) == log' = [log EXCEPT ![p] = @ \o NewCalls(p)]

\* The first step of a request: the log starts with the call it makes.
Started(p) == log' = [log EXCEPT ![p] = NewCalls(p)]

\* A step inside the Resolver or the Prober, made on behalf of a request.
InRequest(p) == UNCHANGED <<apps_client, req, http>> /\ Logged(p)

\* Task p is in a sleep that is not over.
Sleeping(p) ==
  \/ pc[p] = "backoff" /\ now < chk[p].wake
  \/ pc[p] = "retry_sleep" /\ now < res[p].wake

\* ----------------------------------------------------------- request runs
\* One task serves one request, a status request or a launch, in a process
\* whose cache is empty or holds what an earlier probe left, against every
\* behaviour of the Apps Service, the Exposure Service and the endpoint.
\* The cache a probe of the url of "abc123" leaves that was entered at time
\* 0 and answered 200 at once (apps.py:81-93).
WarmCache ==
  CacheStore(<<>>, Url("abc123"), 0, TRUE,
             [status_code |-> 200, response_time_ms |-> 0, attempt |-> 1])

InitRequests ==
  /\ Init(0..MaxRequestRetries, {MaxTTL}, BOOLEAN, {<<>>, WarmCache})
  /\ AppsConfigured(BOOLEAN)

StatusRequest(p, a, u) == pc[p] = "idle" /\ get_app_status(p, a, u)

LaunchRequest(p, a, u, n) == pc[p] = "idle" /\ launch_app(p, a, u, n)

\* The clock runs freely up to MaxRequestTime, and past it as long as a
\* sleep is waiting for it.
TickRequests ==
  Tick(IF \E p \in ProbeTasks : Sleeping(p) THEN now + 1 ELSE MaxRequestTime)

\* A status request arrives at task p.
StatusArrives(p) ==
  \E a \in AnalysisIds, u \in Usernames : StatusRequest(p, a, u) /\ Started(p)

\* A launch arrives at task p.
LaunchArrives(p) ==
  \E a \in AppIds, u \in Usernames, n \in SubmissionNames :
    LaunchRequest(p, a, u, n) /\ Started(p)

\* get_app_status goes on: get_analysis returns or raises, or a callee has
\* returned.
StatusSteps(p) ==
  \/ \E a \in Analyses : AnalysisReturned(p, a) /\ Logged(p)
  \/ \E e \in AnalysisErrors : AnalysisRaised(p, e) /\ Logged(p)
  \/ StatusResolved(p) /\ Logged(p)
  \/ StatusProbed(p) /\ Logged(p)

\* launch_app goes on.
LaunchSteps(p) ==
  \/ \E r \in GetAppReplies : GetAppReply(p, r) /\ Logged(p)
  \/ \E r \in SubmitResponses : SubmitReturned(p, r) /\ Logged(p)
  \/ \E e \in SubmitErrors : SubmitRaised(p, e) /\ Logged(p)
  \/ LaunchResolved(p) /\ Logged(p)

\* get_analysis_subdomain goes on: a call it awaits returns or raises, or its
\* sleep is over.
ResolverSteps(p) ==
  \/ \E r \in ExternalIdReplies : ExternalIdReply(p, r) /\ InRequest(p)
  \/ \E r \in AsyncDataReplies : AsyncDataReply(p, r) /\ InRequest(p)
  \/ RetrySleepOver(p) /\ InRequest(p)

\* check_vice_url_ready goes on: a request it awaits is answered or raises,
\* or its sleep is over.
ProberSteps(p) ==
  \/ \E s \in CacheStatusCodes : HeadResponse(p, s) /\ InRequest(p)
  \/ \E e \in CacheErrors : HeadError(p, e) /\ InRequest(p)
  \/ \E s \in CacheStatusCodes : GetResponse(p, s) /\ InRequest(p)
  \/ \E e \in CacheErrors : GetError(p, e) /\ InRequest(p)
  \/ \E s \in CacheStatusCodes : FallbackResponse(p, s) /\ InRequest(p)
  \/ \E e \in CacheErrors : FallbackError(p, e) /\ InRequest(p)
  \/ BackoffOver(p) /\ InRequest(p)

NextRequests ==
  \/ \E p \in ProbeTasks : StatusArrives(p)
  \/ \E p \in ProbeTasks : LaunchArrives(p)
  \/ \E p \in ProbeTasks : StatusSteps(p)
  \/ \E p \in ProbeTasks : LaunchSteps(p)
  \/ \E p \in ProbeTasks : ResolverSteps(p)
  \/ \E p \in ProbeTasks : ProberSteps(p)
  \/ TickRequests

SpecRequests == InitRequests /\ [][NextRequests]_vars

\* ---------------------------------------------------- status requests, fair
\* One task serves one status request on an empty cache, with the default
\* retry count of the probe.  Every awaited call
\* returns or raises in the end (each carries a timeout: clients.py,
\* apps.py:58-67), the event loop resumes a coroutine that can go on, and the
\* clock does not stop while a sleep waits for it.
InitStatus ==
  /\ Init({DefaultProbeRetries}, {MaxTTL}, {TRUE}, {<<>>})
  /\ AppsConfigured({TRUE})

TickStatus ==
  Tick(IF \E p \in ProbeTasks : Sleeping(p) THEN now + 1 ELSE MaxStatusTime)

\* The status request of task p goes on.
StatusProgress(p) == StatusSteps(p) \/ ResolverSteps(p) \/ ProberSteps(p)

NextStatus ==
  \/ \E p \in ProbeTasks : StatusArrives(p)
  \/ \E p \in ProbeTasks : StatusProgress(p)
  \/ TickStatus

SpecStatusFair ==
  /\ InitStatus
  /\ [][NextStatus]_vars
  /\ WF_vars(TickStatus)
  /\ \A p \in ProbeTasks : WF_vars(StatusProgress(p))

\* ------------------------------------------------- requests, callee raises
\* The places where a task is suspended inside get_analysis_subdomain and
\* inside check_vice_url_ready.
ResolverPlaces == {"external_id", "async_data", "retry_sleep"}

ProberPlaces == {"head", "get", "fallback", "backoff"}

\* apps.py:878, 885  an exception comes out of the awaited
\* get_analysis_subdomain or check_vice_url_ready (as when a test replaces
\* the function with a double that raises): both awaits of get_app_status
\* stand outside any try block, so the exception leaves the handler
CalleeRaises(p, e) ==
  /\ req[p].op = "status"
  /\ pc[p] \in ResolverPlaces \cup ProberPlaces
  /\ req' = [req EXCEPT ![p].callee = e]
  /\ Raise(p, e)
  /\ UNCHANGED <<now, cfgvars, apps_client, log, probervars, resolvervars>>

NextRaising ==
  \/ NextRequests
  \/ \E p \in ProbeTasks : CalleeRaises(p, OtherError)

SpecRaising == InitRequests /\ [][NextRaising]_vars

\* ------------------------------------------- status requests, one by one
\* One task serves status requests for the same job one after the other, in
\* a process that starts with an empty cache: each request starts when the
\* one before has returned or failed, until MaxCalls of them have reached
\* check_vice_url_ready.  The probe makes one attempt, and the
\* Exposure Service answers the async-metadata call with a subdomain,
\* without one, or with a failure that is not a 404, so nothing sleeps.
RepeatAsyncReplies == {Ok("abc123"), Ok(""), OtherError}

InitRepeat == Init({1}, {MaxTTL}, {TRUE}, {<<>>}) /\ AppsConfigured({TRUE})

RepeatRequest(p) ==
  /\ pc[p] \in {"idle", "responded", "failed"}
  /\ calls < MaxCalls
  /\ get_app_status(p, "0a1b2c3d-0000-4000-8000-000000000001", "testuser")

TickRepeat == Tick(MaxRepeatTime)

NextRepeat ==
  \/ \E p \in ProbeTasks : RepeatRequest(p) /\ Started(p)
  \/ \E p \in ProbeTasks, a \in Analyses : AnalysisReturned(p, a) /\ Logged(p)
  \/ \E p \in ProbeTasks, e \in AnalysisErrors : AnalysisRaised(p, e) /\ Logged(p)
  \/ \E p \in ProbeTasks : StatusResolved(p) /\ Logged(p)
  \/ \E p \in ProbeTasks : StatusProbed(p) /\ Logged(p)
  \/ \E p \in ProbeTasks, r \in ExternalIdReplies : ExternalIdReply(p, r) /\ InRequest(p)
  \/ \E p \in ProbeTasks, r \in RepeatAsyncReplies : AsyncDataReply(p, r) /\ InRequest(p)
  \/ \E p \in ProbeTasks, s \in CacheStatusCodes : HeadResponse(p, s) /\ InRequest(p)
  \/ \E p \in ProbeTasks, e \in CacheErrors : HeadError(p, e) /\ InRequest(p)
  \/ \E p \in ProbeTasks, s \in CacheStatusCodes : GetResponse(p, s) /\ InRequest(p)
  \/ \E p \in ProbeTasks, e \in CacheErrors : GetError(p, e) /\ InRequest(p)
  \/ \E p \in ProbeTasks, s \in CacheStatusCodes : FallbackResponse(p, s) /\ InRequest(p)
  \/ \E p \in ProbeTasks, e \in CacheErrors : FallbackError(p, e) /\ InRequest(p)
  \/ TickRepeat

SpecRepeat == InitRepeat /\ [][NextRepeat]_vars

\* ------------------------------------------------------ overlapping calls
\* Two tasks of the event loop each call check_vice_url_ready once, for the
\* same url or for different ones, in a process that starts with an empty
\* cache.  A task runs until its next await; at every await the other task
\* may run (apps.py:67, 70, 101, 113), so the calls interleave in every
\* order.  The endpoint answers with a ready or a not-ready status, asks
\* for a GET, or refuses the connection.
OverlapStatusCodes == {200, 405, 500}

OverlapErrors == {"ConnectError"}

InitOverlap ==
  /\ Init(1..MaxOverlapRetries, {MaxTTL}, {TRUE}, {<<>>})
  /\ AppsConfigured({TRUE})

OverlapCall(p, u) == pc[p] = "idle" /\ check_vice_url_ready(p, u)

TickOverlap == Tick(MaxOverlapTime)

NextOverlap ==
  \/ \E p \in Tasks, u \in URLs : OverlapCall(p, u) /\ UNCHANGED requestvars
  \/ \E p \in Tasks, s \in OverlapStatusCodes : HeadResponse(p, s) /\ UNCHANGED requestvars
  \/ \E p \in Tasks, e \in OverlapErrors : HeadError(p, e) /\ UNCHANGED requestvars
  \/ \E p \in Tasks, s \in OverlapStatusCodes : GetResponse(p, s) /\ UNCHANGED requestvars
  \/ \E p \in Tasks, e \in OverlapErrors : GetError(p, e) /\ UNCHANGED requestvars
  \/ \E p \in Tasks : BackoffOver(p) /\ UNCHANGED requestvars
  \/ TickOverlap

SpecOverlap == InitOverlap /\ [][NextOverlap]_vars

\* ================================================================ claims
Age(p) == chk[p].current_time - trace[p].seen.time

Pair(e) == [ready |-> e.ready, details |-> e.details]

\* In the call of task p every attempt the configuration allows has ended
\* with an exception.
Exhausted(p) ==
  /\ vice_url_check_retries >= 1
  /\ Len(trace[p].fails) = vice_url_check_retries

\* An attempt of the call of task p has received its final response: a GET
\* response, or a HEAD response that no GET follows.
Answered(p) ==
  \/ trace[p].fallback.kind = "response"
  \/ trace[p].get.kind = "response"
  \/ trace[p].head.kind = "response" /\ trace[p].head.status \notin {404, 405}

\* The status of the last response the attempt under way received.
FinalStatus(p) ==
  IF trace[p].fallback.kind = "response" THEN trace[p].fallback.status
  ELSE IF trace[p].get.kind = "response" THEN trace[p].get.status
  ELSE trace[p].head.status

\* C1: a call for u entered less than TTL after the entry of the last probe
\* of u that returned gives back the pair that probe returned and sends no
\* HTTP request.
C1_SecondCallServedFromCache ==
  \A p \in Tasks :
    (/\ trace[p].has_prev
     /\ chk[p].current_time - trace[p].prev.time < vice_url_check_cache_ttl)
    => /\ pc[p] = "done"
       /\ result[p] = Pair(trace[p].prev)
       /\ trace[p].heads = 0
       /\ trace[p].gets = 0

C1_Witness ==
  \E p \in Tasks :
    /\ pc[p] = "done"
    /\ trace[p].has_prev
    /\ chk[p].current_time - trace[p].prev.time < vice_url_check_cache_ttl
    /\ chk[p].current_time > trace[p].prev.time
    /\ result[p].ready
    /\ trace[p].heads = 0

\* C2: a call is answered from the cache only if the entry it found is
\* younger than the TTL; a call that finds an entry of age >= TTL is not
\* answered from it and, when the retry count is >= 1, sends a HEAD request.
C2_ExpiredEntryNeverServed ==
  \A p \in Tasks :
    pc[p] # "idle" =>
      /\ trace[p].hit =>
            trace[p].had_entry /\ Age(p) < vice_url_check_cache_ttl
      /\ (trace[p].had_entry /\ Age(p) >= vice_url_check_cache_ttl) =>
            /\ ~trace[p].hit
            /\ vice_url_check_retries >= 1 => trace[p].heads >= 1

C2_Witness ==
  \E p \in Tasks :
    /\ pc[p] = "done"
    /\ trace[p].had_entry
    /\ vice_url_check_cache_ttl > 0
    /\ Age(p) = vice_url_check_cache_ttl
    /\ trace[p].heads >= 1
    /\ result[p] # Pair(trace[p].seen)

\* C3 as stated: a call that is not answered from the cache leaves under its
\* url the pair it returns, stamped with the time of the write.
C3_StampedWithTimeOfWrite ==
  \A p \in Tasks :
    (pc[p] = "done" /\ ~trace[p].hit) =>
      /\ trace[p].wrote
      /\ chk[p].url \in DOMAIN vice_url_cache
      /\ vice_url_cache[chk[p].url] =
           [time |-> trace[p].wrote_at,
            ready |-> result[p].ready,
            details |-> result[p].details]

\* C3 amended: a call that is not answered from the cache leaves under its
\* url the pair it returns, stamped with the clock value the call read at its
\* entry, in place of any earlier entry; whether the call ended on a response,
\* on a timeout or on another exception.
C3_StampedWithTimeOfEntry ==
  \A p \in Tasks :
    (pc[p] = "done" /\ ~trace[p].hit) =>
      /\ trace[p].wrote
      /\ chk[p].url \in DOMAIN vice_url_cache
      /\ vice_url_cache[chk[p].url] =
           [time |-> chk[p].current_time,
            ready |-> result[p].ready,
            details |-> result[p].details]

C3_Witness ==
  \E p \in Tasks :
    /\ pc[p] = "done"
    /\ ~trace[p].hit
    /\ trace[p].had_entry
    /\ trace[p].seen # vice_url_cache[chk[p].url]
    /\ trace[p].wrote_at > chk[p].current_time
    /\ Len(trace[p].fails) = vice_url_check_retries

\* The external-id lookup of task p's call failed or gave no external id.
NoExternalId(p) ==
  LET x == rtrace[p].ext_reply IN
  \/ x.kind \in {"http_error", "error"}
  \/ x.kind = "ok" /\ x.value = ""

AllNotFound(replies) == \A i \in 1..Len(replies) : replies[i] = HttpError(404)

\* C4: when the external-id lookup raises (not-found included) or its body
\* has no external id, the resolver has returned None, after that one lookup
\* and without any async-metadata call.
C4_NoExternalIdShortCircuit ==
  \A p \in Tasks :
    NoExternalId(p) =>
      /\ pc[p] = "done"
      /\ subdomain[p] = None
      /\ rtrace[p].ext_calls = 1
      /\ rtrace[p].async_calls = 0

C4_Witness ==
  \E p \in Tasks :
    /\ rtrace[p].ext_reply = HttpError(404)
    /\ pc[p] = "done"
    /\ subdomain[p] = None
    /\ rtrace[p].ext_calls = 1

\* C5: when the first k async-metadata calls raise not-found and call k + 1
\* gives a subdomain, the resolver has returned that subdomain after k + 1
\* calls and k sleeps of retry_delay.
C5_RetryThenSucceed ==
  \A p \in Tasks :
    LET a == rtrace[p].async_replies
        n == Len(a)
    IN (/\ n >= 1
        /\ a[n].kind = "ok" /\ a[n].value # ""
        /\ AllNotFound(SubSeq(a, 1, n - 1)))
       => /\ pc[p] = "done"
          /\ subdomain[p] = a[n].value
          /\ rtrace[p].async_calls = n
          /\ rtrace[p].sleeps = [i \in 1..(n - 1) |-> res[p].retry_delay]

C5_Witness ==
  \E p \in Tasks :
    /\ res[p].max_retries = DefaultMaxRetries
    /\ rtrace[p].async_replies = <<HttpError(404), HttpError(404), Ok("abc123")>>
    /\ pc[p] = "done"
    /\ subdomain[p] = "abc123"
    /\ rtrace[p].async_calls = 3
    /\ rtrace[p].sleeps = <<DefaultRetryDelay, DefaultRetryDelay>>

\* C6: while every async-metadata call raises not-found the resolver goes on
\* up to max_retries calls; after the max_retries-th not-found it has returned
\* None, having slept max_retries - 1 times, retry_delay each.
C6_Exhaustion ==
  \A p \in Tasks :
    LET a == rtrace[p].async_replies
        n == res[p].max_retries
    IN (rtrace[p].async_calls >= 1 /\ AllNotFound(a)) =>
         /\ rtrace[p].async_calls <= n
         /\ pc[p] = "done" <=> Len(a) = n
         /\ Len(a) = n =>
              /\ subdomain[p] = None
              /\ rtrace[p].async_calls = n
              /\ rtrace[p].sleeps = [i \in 1..(n - 1) |-> res[p].retry_delay]

C6_Witness ==
  \E p \in Tasks :
    /\ pc[p] = "done"
    /\ res[p].max_retries = DefaultMaxRetries
    /\ rtrace[p].async_calls = 5
    /\ AllNotFound(rtrace[p].async_replies)
    /\ rtrace[p].sleeps = <<2, 2, 2, 2>>
    /\ subdomain[p] = None

\* C7: when every one of the n >= 1 allowed attempts fails, n HEAD requests
\* were sent, n - 1 sleeps were taken, the sleep after attempt i (from 0)
\* lasting 0.5 * 2^i s (2^i half seconds), and details.attempt is n.
C7_BackoffSchedule ==
  \A p \in Tasks :
    Exhausted(p) =>
      /\ pc[p] = "done"
      /\ trace[p].heads = vice_url_check_retries
      /\ Len(trace[p].sleeps) = vice_url_check_retries - 1
      /\ \A i \in 1..(vice_url_check_retries - 1) :
            trace[p].sleeps[i] = Pow2(i - 1)
      /\ result[p].details.attempt = vice_url_check_retries

C7_Witness ==
  \E p \in Tasks :
    /\ Exhausted(p)
    /\ pc[p] = "done"
    /\ vice_url_check_retries = 3
    /\ trace[p].fails = <<"ReadTimeout", "ReadTimeout", "ReadTimeout">>
    /\ trace[p].sleeps = <<1, 2>>
    /\ result[p].details.attempt = 3

\* C8: when every allowed attempt fails the call returns ready = false with
\* the timeout details if the last attempt timed out and the error details
\* (message, exception type) otherwise, attempt being the retry count.
C8_ExhaustionResult ==
  \A p \in Tasks :
    Exhausted(p) =>
      LET n == vice_url_check_retries
          e == trace[p].fails[n]
      IN /\ pc[p] = "done"
         /\ result[p].ready = FALSE
         /\ result[p].details =
              IF e = "ReadTimeout"
                THEN [error |-> "timeout", timeout_seconds |-> 5, attempt |-> n]
                ELSE [error |-> "message of " \o e, error_type |-> e, attempt |-> n]

C8_Witness ==
  \E p \in Tasks :
    /\ Exhausted(p)
    /\ pc[p] = "done"
    /\ vice_url_check_retries = 2
    /\ trace[p].fails = <<"ConnectError", "ReadTimeout">>
    /\ result[p].details.error = "timeout"

\* C9: in an attempt a GET is sent exactly when the HEAD answered 404 or 405
\* or raised something other than ConnectError; it is sent in the attempt of
\* that HEAD, and the result of the attempt is then that of the GET response.
C9_HeadGetFallback ==
  \A p \in Tasks :
    LET h == trace[p].head
        g == trace[p].get
        f == trace[p].fallback
        GetSent == g.kind # "not sent" \/ f.kind # "not sent"
    IN /\ GetSent <=>
            \/ h.kind = "response" /\ h.status \in {404, 405}
            \/ h.kind = "error" /\ h.error # "ConnectError"
       /\ pc[p] \in {"get", "fallback"} => trace[p].heads = Len(trace[p].fails) + 1
       /\ (Answered(p) /\ GetSent) =>
            /\ g.kind = "response" \/ f.kind = "response"
            /\ LET s == IF f.kind = "response" THEN f.status ELSE g.status IN
               /\ result[p].ready = (200 <= s /\ s < 400)
               /\ result[p].details.status_code = s
       /\ (Answered(p) /\ ~GetSent) =>
            result[p].details.status_code = h.status

C9_Witness ==
  \E p \in Tasks :
    /\ Answered(p)
    /\ trace[p].head = Resp(405)
    /\ trace[p].get = Resp(200)
    /\ trace[p].gets = 1
    /\ result[p].ready
    /\ result[p].details.status_code = 200

\* C10: a call that ends on a response reports ready exactly when the status
\* s of that response has 200 <= s < 400, and records s and the number of
\* the attempt, counted from 1.
C10_ReadyIffStatusBelow400 ==
  \A p \in Tasks :
    Answered(p) =>
      /\ pc[p] = "done"
      /\ result[p].ready = (200 <= FinalStatus(p) /\ FinalStatus(p) < 400)
      /\ result[p].details.status_code = FinalStatus(p)
      /\ result[p].details.attempt = Len(trace[p].fails) + 1

C10_Witness ==
  \E p \in Tasks :
    /\ Answered(p)
    /\ FinalStatus(p) = 302
    /\ result[p].ready
    /\ result[p].details.attempt = 2

\* C19: in an attempt whose HEAD request raised ConnectError no GET is sent;
\* the attempt is recorded as failed with that error, and the call is either
\* in the backoff sleep before the next attempt or, when the attempt was the
\* last one, has returned not ready with the details of that error.
C19_ConnectErrorSkipsGet ==
  \A p \in Tasks :
    trace[p].head = Raised("ConnectError") =>
      LET c == chk[p]
          fails == trace[p].fails
      IN /\ trace[p].get = NotSent
         /\ trace[p].fallback = NotSent
         /\ Len(fails) = c.attempt + 1
         /\ fails[Len(fails)] = "ConnectError"
         /\ IF c.attempt < vice_url_check_retries - 1
              THEN /\ pc[p] = "backoff"
                   /\ Len(trace[p].sleeps) = c.attempt + 1
                   /\ c.wake >= now
                        => c.wake - now <= trace[p].sleeps[c.attempt + 1]
              ELSE /\ pc[p] = "done"
                   /\ result[p] =
                        [ready |-> FALSE,
                         details |-> [error |-> "message of ConnectError",
                                      error_type |-> "ConnectError",
                                      attempt |-> c.attempt + 1]]

C19_Witness ==
  \E p \in Tasks :
    /\ trace[p].head = Raised("ConnectError")
    /\ pc[p] = "done"
    /\ trace[p].fails = <<"ConnectError", "ConnectError">>
    /\ trace[p].heads = 2
    /\ trace[p].gets = 0

\* The failure of an async-metadata call that is neither a return nor a 404.
FailedOtherThanNotFound(reply) ==
  /\ reply.kind # "ok"
  /\ ~(reply.kind = "http_error" /\ reply.status = 404)

\* C20: an async-metadata call that fails with anything but a 404 is the
\* last one of the resolution: the call has returned None, and the only
\* sleeps made are those that followed the earlier 404 answers.
C20_OtherFailureStopsAtOnce ==
  \A p \in Tasks :
    LET a == rtrace[p].async_replies IN
    \A i \in 1..Len(a) :
      FailedOtherThanNotFound(a[i]) =>
        /\ i = Len(a)
        /\ pc[p] = "done"
        /\ subdomain[p] = None
        /\ rtrace[p].async_calls = i
        /\ Len(rtrace[p].sleeps) =
             Cardinality({j \in 1..(i - 1) : a[j] = HttpError(404)})

C20_Witness ==
  \E p \in Tasks :
    /\ pc[p] = "done"
    /\ res[p].max_retries = 5
    /\ rtrace[p].async_replies = <<HttpError(404), HttpError(500)>>
    /\ rtrace[p].sleeps = <<2>>
    /\ subdomain[p] = None

\* C11: when get_analysis raises in a status request, the request fails
\* with that exception; get_analysis is the only call the request has made
\* (no external-id lookup, no async-metadata lookup, no HEAD, no GET), and
\* the cache is as the request found it.
C11_JobFetchFailureFailsRequest ==
  \A p \in Tasks :
    (req[p].op = "status" /\ req[p].raised # NoReply) =>
      /\ pc[p] = "failed"
      /\ http[p].kind = "error"
      /\ http[p].error = req[p].raised
      /\ log[p] = <<"get_analysis">>
      /\ rtrace[p] = NoRTrace
      /\ trace[p] = NoTrace
      /\ calls = 0
      /\ vice_url_cache = req[p].cache

C11_Witness ==
  \E p \in Tasks :
    /\ req[p].op = "status"
    /\ req[p].raised = HttpError(404)
    /\ pc[p] = "failed"
    /\ http[p].error = HttpError(404)
    /\ vice_url_cache = WarmCache
    /\ now > 0

\* The status request of task p has its job record: get_analysis was called
\* and returned.
JobFetched(p) ==
  /\ req[p].op = "status"
  /\ log[p] # <<>>
  /\ pc[p] # "get_analysis"
  /\ req[p].raised = NoReply

\* The resolution of task p ended on a failed Exposure Service call.
ResolutionFailed(p) ==
  LET a == rtrace[p].async_replies IN
  \/ rtrace[p].ext_reply.kind \in {"http_error", "error"}
  \/ a # <<>> /\ a[Len(a)].kind \in {"http_error", "error"}

\* The probe of task p ended on a failed HTTP request.
ProbeFailed(p) == trace[p].fails # <<>> /\ ~Answered(p)

\* C13: a status request that has its job record never fails; when it has
\* returned, the result is a dict, without a url and with url_ready false if
\* the resolution ended on a failed Exposure Service call, and with url_ready
\* false if the probe ended on a failed HTTP request.
C13_FailuresAbsorbed ==
  \A p \in Tasks :
    JobFetched(p) =>
      /\ pc[p] # "failed"
      /\ http[p].kind # "error"
      /\ pc[p] = "responded" =>
           /\ http[p].kind = "ok"
           /\ ResolutionFailed(p) =>
                /\ "url" \notin DOMAIN http[p].body
                /\ ~http[p].body.url_ready
           /\ ProbeFailed(p) => ~http[p].body.url_ready

C13_Witness ==
  \E p \in Tasks :
    /\ JobFetched(p)
    /\ pc[p] = "responded"
    /\ rtrace[p].async_replies = <<HttpError(404), Ok("abc123")>>
    /\ trace[p].fails = <<"ReadTimeout", "ConnectError">>
    /\ http[p].kind = "ok"
    /\ ~http[p].body.url_ready
    /\ "url" \in DOMAIN http[p].body
    /\ http[p].body.url = "https://abc123.cyverse.run"

\* C15: a status request that has its job record and whose resolution gave
\* no subdomain returns exactly analysis_id, status and url_ready = false,
\* with no url and no url_check_details; it has sent no HEAD and no GET,
\* check_vice_url_ready was not entered, and the cache is as the request
\* found it.
C15_NoSubdomainNoProbe ==
  \A p \in Tasks :
    (JobFetched(p) /\ pc[p] \in {"resolved", "responded"} /\ subdomain[p] = None) =>
      /\ \A i \in 1..Len(log[p]) : log[p][i] \notin {"HEAD", "GET"}
      /\ trace[p] = NoTrace
      /\ chk[p] = NoChk
      /\ calls = 0
      /\ vice_url_cache = req[p].cache
      /\ pc[p] = "responded" =>
           /\ http[p].kind = "ok"
           /\ DOMAIN http[p].body = {"analysis_id", "status", "url_ready"}
           /\ http[p].body.url_ready = FALSE
           /\ http[p].body.analysis_id = req[p].analysis_id

C15_Witness ==
  \E p \in Tasks :
    /\ JobFetched(p)
    /\ pc[p] = "responded"
    /\ subdomain[p] = None
    /\ Len(rtrace[p].async_replies) = 5
    /\ \A i \in 1..5 : rtrace[p].async_replies[i] = HttpError(404)
    /\ vice_url_cache = WarmCache
    /\ http[p].body.url_ready = FALSE
    /\ "url" \notin DOMAIN http[p].body

\* The place of a call in the order job fetch, external-id lookup,
\* async-metadata lookups, probe.
Rank(call) ==
  IF call = "get_analysis" THEN 1
  ELSE IF call = "get_external_id" THEN 2
  ELSE IF call = "get_async_data" THEN 3
  ELSE 4

\* C16: in a status request whose job record has no subdomain, whose
\* external id resolved, whose second async-metadata call was the one that
\* gave a subdomain s, and whose first HEAD was answered 200, the calls made
\* are get_analysis, get_external_id, get_async_data twice and one HEAD, in
\* that order; the url probed is "https://" + s + ".cyverse.run"; and the
\* request returns analysis_id, the status of the record, url_ready = true
\* and that url.  In every status request the calls are made in the order
\* job fetch, external-id lookup, async-metadata lookups, probe requests.
C16_EndToEnd ==
  \A p \in Tasks :
    /\ req[p].op = "status" =>
         \A i, j \in 1..Len(log[p]) : i < j => Rank(log[p][i]) <= Rank(log[p][j])
    /\ LET a == rtrace[p].async_replies IN
       (/\ JobFetched(p)
        /\ req[p].analysis.subdomain = ""
        /\ rtrace[p].ext_reply.kind = "ok"
        /\ Len(a) = 2
        /\ a[2].kind = "ok" /\ a[2].value # ""
        /\ trace[p].heads = 1
        /\ trace[p].head = Resp(200))
       => /\ pc[p] \in {"probed", "responded"}
          /\ log[p] = <<"get_analysis", "get_external_id", "get_async_data",
                        "get_async_data", "HEAD">>
          /\ chk[p].url = "https://" \o a[2].value \o ".cyverse.run"
          /\ pc[p] = "responded" =>
               /\ http[p].kind = "ok"
               /\ http[p].body.analysis_id = req[p].analysis_id
               /\ http[p].body.status =
                    (IF req[p].analysis.status = "" THEN "Unknown"
                     ELSE req[p].analysis.status)
               /\ http[p].body.url_ready = TRUE
               /\ http[p].body.url = "https://" \o a[2].value \o ".cyverse.run"
               /\ http[p].body.url = chk[p].url

C16_Witness ==
  \E p \in Tasks :
    /\ JobFetched(p)
    /\ pc[p] = "responded"
    /\ req[p].analysis = [status |-> "Running", subdomain |-> ""]
    /\ rtrace[p].ext_reply = Ok("E1")
    /\ rtrace[p].async_replies = <<HttpError(404), Ok("abc123")>>
    /\ trace[p].heads = 1
    /\ trace[p].head = Resp(200)
    /\ http[p].body.status = "Running"
    /\ http[p].body.url_ready
    /\ "url" \in DOMAIN http[p].body
    /\ http[p].body.url = "https://abc123.cyverse.run"

\* The launch of task p has submitted its analysis and has the id of it.
Submitted(p) ==
  /\ req[p].op = "launch"
  /\ \E i \in 1..Len(log[p]) : log[p][i] = "submit_analysis"
  /\ pc[p] # "submit_analysis"
  /\ req[p].raised = NoReply
  /\ req[p].response.id # ""

\* C18: a launch whose submission returned an analysis id calls
\* get_analysis_subdomain on that id with the default retry settings and
\* never fails afterwards; its result has a url exactly when the Resolver
\* returned a subdomain, and the url is then "https://" + subdomain +
\* ".cyverse.run".  No launch sends a HEAD or GET, enters
\* check_vice_url_ready or changes the cache.
C18_LaunchResolvesNeverProbes ==
  \A p \in Tasks :
    /\ req[p].op = "launch" =>
         /\ \A i \in 1..Len(log[p]) : log[p][i] \notin {"HEAD", "GET"}
         /\ trace[p] = NoTrace
         /\ calls = 0
         /\ vice_url_cache = req[p].cache
    /\ Submitted(p) =>
         /\ res[p].analysis_id = req[p].response.id
         /\ res[p].max_retries = 5
         /\ res[p].retry_delay = 2
         /\ pc[p] # "failed"
         /\ http[p].kind # "error"
         /\ pc[p] = "responded" =>
              /\ http[p].kind = "ok"
              /\ http[p].body.analysis_id = req[p].response.id
              /\ "url" \in DOMAIN http[p].body <=> subdomain[p] # None
              /\ subdomain[p] # None =>
                   http[p].body.url = "https://" \o subdomain[p] \o ".cyverse.run"

C18_Witness ==
  \E p \in Tasks :
    /\ Submitted(p)
    /\ pc[p] = "responded"
    /\ rtrace[p].async_replies = <<HttpError(404), Ok(""), Ok("abc123")>>
    /\ subdomain[p] = "abc123"
    /\ "url" \in DOMAIN http[p].body
    /\ http[p].body.url = "https://abc123.cyverse.run"
    /\ http[p].body.name = "analysis-<timestamp>"

C12_CalleeExceptionAbsorbed ==
  \A p \in Tasks :
    (JobFetched(p) /\ req[p].callee # NoReply) =>
      /\ pc[p] = "responded"
      /\ http[p].kind = "ok"
      /\ "url" \notin DOMAIN http[p].body
      /\ "url_ready" \in DOMAIN http[p].body
      /\ ~http[p].body.url_ready

\* How often call occurs in the log of task p.
Count(p, call) == Cardinality({i \in 1..Len(log[p]) : log[p][i] = call})

\* The calls and sleeps of the status request of task p are within their
\* limits.
WithinLimits(p) ==
  /\ Count(p, "get_analysis") <= 1
  /\ JobFetched(p) => Count(p, "get_analysis") = 1
  /\ Count(p, "get_external_id") <= 1
  /\ Count(p, "get_async_data") <= 5
  /\ Count(p, "get_async_data") = rtrace[p].async_calls
  /\ Len(rtrace[p].sleeps) <= 4
  /\ \A i \in 1..Len(rtrace[p].sleeps) : rtrace[p].sleeps[i] = 2
  /\ Count(p, "HEAD") = trace[p].heads
  /\ trace[p].heads <= (IF vice_url_check_retries > 0 THEN vice_url_check_retries ELSE 0)
  /\ Count(p, "GET") <= 2 * trace[p].heads
  /\ Len(trace[p].sleeps) < (IF vice_url_check_retries > 0 THEN vice_url_check_retries ELSE 1)
  /\ \A i \in 1..Len(trace[p].sleeps) : trace[p].sleeps[i] = Pow2(i - 1)
  /\ pc[p] = "retry_sleep" => res[p].wake <= now + 2
  /\ pc[p] = "backoff" => chk[p].wake <= now + Pow2(chk[p].attempt)

\* C17: every status request ends, returning or failing, when every call it
\* awaits returns or raises and every sleep ends; on the way it calls
\* get_analysis once, get_external_id at most once, get_async_data at most 5
\* times with at most 4 sleeps of retry_delay between them, and sends at most
\* vice_url_check_retries HEAD requests with fewer backoff sleeps than that.
C17_StatusRequestTerminates ==
  /\ [](\A p \in Tasks : req[p].op = "status" => WithinLimits(p))
  /\ \A p \in Tasks :
       (req[p].op = "status") ~> (pc[p] \in {"responded", "failed"})

C17_Witness ==
  \E p \in Tasks :
    /\ req[p].op = "status"
    /\ pc[p] = "responded"
    /\ Count(p, "get_async_data") = 5
    /\ Len(rtrace[p].sleeps) = 4
    /\ vice_url_check_retries = 3
    /\ Count(p, "HEAD") = 3
    /\ Count(p, "GET") = 6
    /\ trace[p].sleeps = <<1, 2>>
    /\ trace[p].fails = <<"ReadTimeout", "ReadTimeout", "ReadTimeout">>
    /\ now >= 11

\* C25: a call whose attempt received a final response with a status
\* outside [200, 400) has returned not ready with that status and cached
\* it; no sleep and no attempt followed the response.  In every call the
\* attempts after the first and the backoff sleeps number at most the
\* attempts that ended with an exception.
C25_ErrorStatusEndsProbe ==
  \A p \in Tasks :
    /\ trace[p].heads <= Len(trace[p].fails) + 1
    /\ Len(trace[p].sleeps) <= Len(trace[p].fails)
    /\ (Answered(p) /\ ~(200 <= FinalStatus(p) /\ FinalStatus(p) < 400)) =>
         /\ pc[p] = "done"
         /\ result[p].ready = FALSE
         /\ "status_code" \in DOMAIN result[p].details
         /\ result[p].details.status_code = FinalStatus(p)
         /\ trace[p].heads = Len(trace[p].fails) + 1
         /\ Len(trace[p].sleeps) = Len(trace[p].fails)
         /\ chk[p].attempt = Len(trace[p].fails)
         /\ chk[p].url \in DOMAIN vice_url_cache
         /\ vice_url_cache[chk[p].url] =
              [time |-> chk[p].current_time, ready |-> FALSE,
               details |-> result[p].details]

C25_Witness ==
  \E p \in Tasks :
    /\ Answered(p)
    /\ vice_url_check_retries = 3
    /\ trace[p].head = Resp(405)
    /\ trace[p].get = Resp(404)
    /\ trace[p].fails = <<"ConnectError">>
    /\ trace[p].heads = 2
    /\ pc[p] = "done"
    /\ result[p].ready = FALSE

\* C26: a HEAD that raised anything but a connection error was followed by
\* a GET in the same attempt; the attempt failed only if that GET raised,
\* with the GET's exception, and a GET that was answered ended the call
\* with its status.  A call that returned after every one of its requests
\* timed out sent as many HEADs and as many GETs as the retry count, slept
\* between the attempts only, and returned the timeout result.
C26_HeadFailureFallsBackToGet ==
  \A p \in Tasks :
    LET t == trace[p]
        n == vice_url_check_retries
    IN /\ (t.head.kind = "error" /\ t.head.error # "ConnectError") =>
            /\ t.fallback # NotSent
            /\ t.gets >= 1
            /\ t.fallback.kind = "pending" =>
                 pc[p] = "fallback" /\ Len(t.fails) = chk[p].attempt
            /\ t.fallback.kind = "response" =>
                 /\ pc[p] = "done"
                 /\ Len(t.fails) = chk[p].attempt
                 /\ "status_code" \in DOMAIN result[p].details
                 /\ result[p].details.status_code = t.fallback.status
            /\ t.fallback.kind = "error" =>
                 /\ Len(t.fails) = chk[p].attempt + 1
                 /\ t.fails[Len(t.fails)] = t.fallback.error
       /\ (pc[p] = "done" /\ t.heads >= 1 /\ t.only_timeouts) =>
            /\ t.heads = n
            /\ t.gets = n
            /\ Len(t.sleeps) = n - 1
            /\ result[p] =
                 [ready |-> FALSE,
                  details |-> [error |-> "timeout", timeout_seconds |-> 5,
                               attempt |-> n]]

C26_Witness ==
  \E p \in Tasks :
    /\ pc[p] = "done"
    /\ vice_url_check_retries = 3
    /\ trace[p].only_timeouts
    /\ trace[p].heads = 3
    /\ trace[p].gets = 3
    /\ trace[p].fails = <<"ReadTimeout", "ReadTimeout", "ReadTimeout">>
    /\ result[p].details.error = "timeout"

AllWithoutSubdomain(replies) == \A i \in 1..Len(replies) : replies[i] = Ok("")

NotFoundReplies(replies) == {i \in 1..Len(replies) : replies[i] = HttpError(404)}

\* C27: an async-metadata call that returned a body without a subdomain is
\* followed by the next call at once: the resolver is never asleep after
\* such a reply, and it has slept at most once per not-found reply.  While
\* every reply is of this kind nothing is slept; max_retries such replies
\* make max_retries calls and the resolver has returned None.
C27_EmptyReplyNoSleep ==
  \A p \in Tasks :
    LET a == rtrace[p].async_replies
        n == res[p].max_retries
    IN /\ Len(rtrace[p].sleeps) <= Cardinality(NotFoundReplies(a))
       /\ (Len(a) >= 1 /\ a[Len(a)] = Ok("")) =>
            /\ pc[p] # "retry_sleep"
            /\ Len(a) < n => pc[p] = "async_data" /\ rtrace[p].async_calls = Len(a) + 1
            /\ Len(a) = n => pc[p] = "done" /\ subdomain[p] = None
       /\ (rtrace[p].async_calls >= 1 /\ AllWithoutSubdomain(a)) =>
            /\ rtrace[p].sleeps = <<>>
            /\ rtrace[p].async_calls <= n
            /\ pc[p] = "done" <=> Len(a) = n
            /\ Len(a) = n => subdomain[p] = None /\ rtrace[p].async_calls = n

C27_Witness ==
  \E p \in Tasks :
    /\ pc[p] = "done"
    /\ res[p].max_retries = DefaultMaxRetries
    /\ rtrace[p].async_replies = <<Ok(""), Ok(""), Ok(""), Ok(""), Ok("")>>
    /\ rtrace[p].async_calls = 5
    /\ rtrace[p].sleeps = <<>>
    /\ subdomain[p] = None
    /\ now = 0

\* C28: with a retry count of 0 or less every call has returned at once,
\* without any HTTP request or sleep, the pair (false, {error:
\* max_retries_exceeded, retries}).  A call that missed the cache left that
\* pair under its url stamped with its entry time, and a call entered less
\* than TTL after that stamp found it and was answered from the cache.
C28_NoRetriesConfigured ==
  \A p \in Tasks :
    (vice_url_check_retries <= 0 /\ pc[p] # "idle") =>
      LET t == trace[p]
          exceeded == [ready |-> FALSE,
                       details |-> [error |-> "max_retries_exceeded",
                                    retries |-> vice_url_check_retries]]
      IN /\ pc[p] = "done"
         /\ t.heads = 0 /\ t.gets = 0 /\ t.sleeps = <<>>
         /\ result[p] = exceeded
         /\ chk[p].url \in DOMAIN vice_url_cache
         /\ Pair(vice_url_cache[chk[p].url]) = exceeded
         /\ ~t.hit =>
              /\ t.wrote
              /\ vice_url_cache[chk[p].url].time = chk[p].current_time
         /\ (t.had_entry /\ Age(p) < vice_url_check_cache_ttl) =>
              /\ t.hit /\ ~t.wrote
              /\ Pair(t.seen) = exceeded
              /\ vice_url_cache[chk[p].url] = t.seen

C28_Witness ==
  \E p \in Tasks :
    /\ vice_url_check_retries = 0
    /\ vice_url_check_cache_ttl = 2
    /\ pc[p] = "done"
    /\ trace[p].hit
    /\ Age(p) = 1
    /\ result[p].details = [error |-> "max_retries_exceeded", retries |-> 0]
    /\ trace[p].heads = 0

\* The step is one of the call of task p.
StepOf(p) ==
  <<pc[p], chk[p], trace[p], result[p]>>' # <<pc[p], chk[p], trace[p], result[p]>>

\* The step is the return of a call of task p that was not answered from
\* the cache, and the cache differs from before at most in the entry of the
\* call's url, which is now the returned pair with the call's entry time.
TerminalWrite(p) ==
  /\ StepOf(p)
  /\ pc'[p] = AfterProber(p)
  /\ trace'[p].wrote /\ ~trace'[p].hit
  /\ vice_url_cache' =
       [u \in DOMAIN vice_url_cache \cup {chk'[p].url} |->
          IF u = chk'[p].url
            THEN [time |-> chk'[p].current_time, ready |-> result'[p].ready,
                  details |-> result'[p].details]
            ELSE vice_url_cache[u]]

\* The step is a call of task p answered from the cache.
ServedFromCache(p) == StepOf(p) /\ trace'[p].hit

\* C23: no step removes a cache entry; a step that changes the cache is the
\* terminal write of a call that was not answered from the cache; a step
\* answered from the cache returns the stored pair and leaves the cache,
\* timestamps included, as it was.
C23_CacheChangedOnlyByTerminalWrite ==
  [][/\ DOMAIN vice_url_cache \subseteq DOMAIN vice_url_cache'
     /\ vice_url_cache' # vice_url_cache => \E p \in Tasks : TerminalWrite(p)
     /\ \A p \in Tasks :
          ServedFromCache(p) =>
            /\ vice_url_cache' = vice_url_cache
            /\ result'[p] = Pair(vice_url_cache[chk'[p].url])]_vars

\* A call was answered from an entry older than its own entry time, the
\* entry still carries its first timestamp, and it is still stored now that
\* its age has reached the TTL.
C23_Witness ==
  \E p \in Tasks :
    /\ pc[p] = "done"
    /\ trace[p].hit
    /\ vice_url_check_cache_ttl = 2
    /\ chk[p].current_time = 1
    /\ chk[p].url \in DOMAIN vice_url_cache
    /\ vice_url_cache[chk[p].url].time = 0
    /\ now - vice_url_cache[chk[p].url].time >= vice_url_check_cache_ttl

\* The status request of task p entered check_vice_url_ready.
ProberInvoked(p) == chk[p] # NoChk

\* C29: in the dict a status request returned, url is present exactly when
\* the resolution gave a subdomain, and is the url of that subdomain;
\* url_check_details is present exactly when check_vice_url_ready was
\* entered, and is the details it returned; url_ready = true only with both
\* present and a status_code in [200, 400) in the details.
C29_StatusResultShape ==
  \A p \in Tasks :
    (req[p].op = "status" /\ pc[p] = "responded") =>
      LET body == http[p].body IN
      /\ http[p].kind = "ok"
      /\ {"analysis_id", "status", "url_ready"} \subseteq DOMAIN body
      /\ DOMAIN body \subseteq
           {"analysis_id", "status", "url_ready", "url", "url_check_details"}
      /\ "url" \in DOMAIN body <=> subdomain[p] # None
      /\ "url" \in DOMAIN body =>
           body.url = "https://" \o subdomain[p] \o ".cyverse.run"
      /\ "url_check_details" \in DOMAIN body <=> ProberInvoked(p)
      /\ "url_check_details" \in DOMAIN body =>
           /\ body.url_check_details = result[p].details
           /\ body.url_ready = result[p].ready
      /\ body.url_ready =>
           /\ "url" \in DOMAIN body
           /\ "url_check_details" \in DOMAIN body
           /\ "status_code" \in DOMAIN body.url_check_details
           /\ 200 <= body.url_check_details.status_code
           /\ body.url_check_details.status_code < 400

\* A subdomain was resolved and its probe answered 500 to the GET.
C29_Witness ==
  \E p \in Tasks :
    /\ req[p].op = "status"
    /\ pc[p] = "responded"
    /\ subdomain[p] = "abc123"
    /\ ProberInvoked(p)
    /\ trace[p].get = Resp(500)
    /\ "url" \in DOMAIN http[p].body
    /\ http[p].body.url = "https://abc123.cyverse.run"
    /\ http[p].body.url_ready = FALSE
    /\ "url_check_details" \in DOMAIN http[p].body
    /\ http[p].body.url_check_details.status_code = 500

\* C30: a status request whose probe was answered from the readiness cache
\* (left by an earlier request for the job) has itself called get_analysis
\* once, get_external_id once and get_async_data, in that order, before it
\* entered check_vice_url_ready, and sent no HEAD or GET; its subdomain is
\* the one its own last get_async_data call returned.  Every status request
\* that returned a body made its own get_external_id call.
C30_LookupsNeverCached ==
  \A p \in Tasks :
    /\ (req[p].op = "status" /\ trace[p].hit) =>
         /\ req[p].cache # <<>>
         /\ Count(p, "get_analysis") = 1
         /\ Count(p, "get_external_id") = 1
         /\ Count(p, "get_async_data") = Len(rtrace[p].async_replies)
         /\ Len(rtrace[p].async_replies) >= 1
         /\ rtrace[p].async_replies[Len(rtrace[p].async_replies)] = Ok(subdomain[p])
         /\ log[p] = <<"get_analysis", "get_external_id">>
                       \o [i \in 1..Len(rtrace[p].async_replies) |-> "get_async_data"]
    /\ (req[p].op = "status" /\ pc[p] = "responded") =>
         /\ Count(p, "get_analysis") = 1
         /\ Count(p, "get_external_id") = 1
         /\ rtrace[p].ext_reply.kind = "ok" /\ rtrace[p].ext_reply.value # "" =>
              Count(p, "get_async_data") >= 1

C30_Witness ==
  \E p \in Tasks :
    /\ req[p].op = "status"
    /\ pc[p] = "responded"
    /\ trace[p].hit
    /\ trace[p].has_prev
    /\ req[p].cache # <<>>
    /\ log[p] = <<"get_analysis", "get_external_id", "get_async_data", "get_async_data">>
    /\ http[p].body.url_ready

\* The calls of tasks p and q are for the same url, and both were entered
\* while the cache had no entry for it: neither had returned when the other
\* was entered.
OverlapOnMiss(p, q) ==
  /\ p # q
  /\ pc[p] # "idle" /\ pc[q] # "idle"
  /\ chk[p].url = chk[q].url
  /\ ~trace[p].had_entry /\ ~trace[q].had_entry

\* C21: of two calls for one url that overlap and both miss the cache,
\* neither is answered from the cache and each sends its own HEAD request;
\* once both have returned each has written, one of them after the other,
\* and the entry of the url holds the pair returned by the one that wrote
\* last.
C21_OverlappingCallsLastWriteWins ==
  \A p, q \in Tasks :
    OverlapOnMiss(p, q) =>
      /\ ~trace[p].hit
      /\ trace[p].heads >= 1
      /\ (pc[p] = "done" /\ pc[q] # "done") =>
           /\ trace[p].wrote
           /\ Pair(vice_url_cache[chk[p].url]) = result[p]
      /\ (pc[p] = "done" /\ pc[q] = "done") =>
           /\ trace[p].wrote /\ trace[q].wrote
           /\ q \in trace[p].after <=> p \notin trace[q].after
           /\ q \in trace[p].after =>
                Pair(vice_url_cache[chk[p].url]) = result[p]

\* Both calls have returned, with different results; the one that is not
\* ready wrote first and the entry is the ready one.
C21_Witness ==
  \E p, q \in Tasks :
    /\ OverlapOnMiss(p, q)
    /\ pc[p] = "done" /\ pc[q] = "done"
    /\ q \in trace[p].after
    /\ result[p].ready /\ ~result[q].ready
    /\ trace[p].heads >= 1 /\ trace[q].heads >= 1
    /\ vice_url_cache[chk[p].url].ready

\* What the call of task p returns according to what the call itself saw:
\* the entry of its own url at entry, its entry time, the outcomes of its
\* own requests and the clock at its return.
OwnResult(p) ==
  LET t == trace[p]
      c == chk[p]
      n == Len(t.fails)
  IN IF t.had_entry /\ c.current_time - t.seen.time < vice_url_check_cache_ttl
       THEN Pair(t.seen)
     ELSE IF Answered(p)
       THEN [ready |-> 200 <= FinalStatus(p) /\ FinalStatus(p) < 400,
             details |-> [status_code |-> FinalStatus(p),
                          response_time_ms |-> (t.wrote_at - c.start_time) * 500,
                          attempt |-> c.attempt + 1]]
     ELSE IF n >= 1 /\ t.fails[n] = "ReadTimeout"
       THEN [ready |-> FALSE,
             details |-> [error |-> "timeout", timeout_seconds |-> 5,
                          attempt |-> c.attempt + 1]]
     ELSE IF n >= 1
       THEN [ready |-> FALSE,
             details |-> [error |-> "message of " \o t.fails[n],
                          error_type |-> t.fails[n], attempt |-> c.attempt + 1]]
     ELSE [ready |-> FALSE,
           details |-> [error |-> "max_retries_exceeded",
                        retries |-> vice_url_check_retries]]

\* The step, made by task p, leaves every entry but that of p's url as it was.
OtherEntriesKept(p) ==
  /\ DOMAIN vice_url_cache' \subseteq DOMAIN vice_url_cache \cup {chk'[p].url}
  /\ \A v \in DOMAIN vice_url_cache :
       v # chk'[p].url =>
         v \in DOMAIN vice_url_cache' /\ vice_url_cache'[v] = vice_url_cache[v]

\* C22: every step of a call check_vice_url_ready(u) leaves the entries of
\* all urls other than u unchanged, whatever the other task does in between;
\* and the result a call returns is the one fixed by the entry of u it found
\* at entry and by the outcomes of its own requests.
C22_OnlyOwnEntryTouched ==
  /\ [](\A p \in Tasks : pc[p] = "done" => result[p] = OwnResult(p))
  /\ [][\A p \in Tasks : StepOf(p) => OtherEntriesKept(p)]_vars

\* The call of p for one url spans the whole call of q for the other; the
\* results differ and each url holds the result of its own call.
C22_Witness ==
  \E p, q \in Tasks :
    /\ pc[p] = "done" /\ pc[q] = "done"
    /\ chk[p].url # chk[q].url
    /\ chk[q].current_time > chk[p].current_time
    /\ q \in trace[p].after
    /\ result[p].ready /\ ~result[q].ready
    /\ Pair(vice_url_cache[chk[p].url]) = result[p]
    /\ Pair(vice_url_cache[chk[q].url]) = result[q]

\* The call of task p wrote the entry of its url, and no call of another
\* task has written that entry since.
LastWriter(p) ==
  /\ trace[p].wrote
  /\ \A q \in Tasks \ {p} :
       ~(trace[q].wrote /\ chk[q].url = chk[p].url /\ p \in trace[q].after)

\* C24: the entry a call wrote carries the clock value the call read at
\* entry, however much later the write happened.  A write replaces an
\* entry by one with an older timestamp only when the replaced entry is
\* that of an overlapping call for the same url which was entered later and
\* wrote earlier.
C24_StampIsEntryTime ==
  \A p \in Tasks :
    /\ LastWriter(p) =>
         /\ vice_url_cache[chk[p].url].time = chk[p].current_time
         /\ chk[p].current_time <= trace[p].wrote_at
    /\ (trace[p].wrote /\ trace[p].over_time > chk[p].current_time) =>
         \E q \in trace[p].after :
           /\ chk[q].url = chk[p].url
           /\ chk[q].current_time = trace[p].over_time
           /\ p \notin trace[q].after
           /\ ~trace[q].had_entry

\* The call entered at 0 wrote at 2 over the entry stamped 1 of a call that
\* was entered later and returned earlier: the timestamp went from 1 to 0.
C24_Witness ==
  \E p \in Tasks :
    /\ LastWriter(p)
    /\ chk[p].current_time = 0
    /\ trace[p].wrote_at = 2
    /\ trace[p].over_time = 1
    /\ vice_url_cache[chk[p].url].time = 0
    /\ now = 2

====
